---- MODULE Spec2Model ----
(***************************************************************************)
(* Verification model of WebRTC-Screen:                                    *)
(*   - the UDP signaling fragmenter / reassembler                          *)
(*     (writeFragments, waitForMessageWithFragments), and                  *)
(*   - the multi-connection client registry (clients.Manager).             *)
(* Strings are sequences of one-character strings, so that formatting      *)
(* (fmt.Sprintf), splitting (strings.SplitN) and parsing (strconv.Atoi)    *)
(* are computed as the code computes them.                                 *)
(***************************************************************************)
EXTENDS Integers, Sequences, FiniteSets, TLC

(***************************************************************************)
(* Bounds of the model                                                     *)
(***************************************************************************)
MaxBodyLen == 1      \* longest payload after the type prefix (small cases)
MaxChunk == 3        \* small chunk sizes 1..MaxChunk, next to the real one
MaxTime == 1         \* clock values 0..MaxTime
MaxNoise == 1        \* unrelated datagrams injected per behaviour
LongLen == 3000      \* length of the one long message (3 chunks of the real size)
MaxStreams == 3      \* stream connections registered at a time, all clients together
MaxCalls == 4        \* stream selections of NextTarget per behaviour
MaxRounds == 2       \* frames the streamer dispatches per behaviour
MaxSendLen == 4      \* length of the messages without a type tag
MaxWrap == 3         \* selections before and after the cursor wraps around
MaxSecond == 3       \* datagrams of a second message arriving during a wait
MaxFrames == 3       \* ticks of the peer's frame loop per behaviour
MaxFrameLen == 3     \* length of an encoded frame

(***************************************************************************)
(* Program constants                                                       *)
(***************************************************************************)
maxUDPPayloadSize == 1200
BufSlack == 100

(***************************************************************************)
(* Strings                                                                 *)
(***************************************************************************)
OFFER == <<"O", "F", "F", "E", "R", ":">>
ANSWER == <<"A", "N", "S", "W", "E", "R", ":">>
FRAG == <<"F", "R", "A", "G", ":">>
COLON == ":"
Prefixes == {OFFER, ANSWER}
Digits == <<"0", "1", "2", "3", "4", "5", "6", "7", "8", "9">>

HasPrefix(s, p) == Len(s) >= Len(p) /\ SubSeq(s, 1, Len(p)) = p

\* a result handed back with its type tag
TrimPrefixNone(s, p) == s

TrimPrefix(s, p) == IF HasPrefix(s, p) THEN SubSeq(s, Len(p) + 1, Len(s)) ELSE s

\* Go slice expression s[start:end] (0-based, end exclusive)
Slice(s, start, end) == SubSeq(s, start + 1, end)

RECURSIVE ItoaNat(_)
ItoaNat(n) == IF n < 10 THEN <<Digits[n + 1]>>
              ELSE ItoaNat(n \div 10) \o <<Digits[(n % 10) + 1]>>

\* fmt.Sprintf("%d", n)
Itoa(n) == IF n < 0 THEN <<"-">> \o ItoaNat(-n) ELSE ItoaNat(n)

IsDigit(c) == \E d \in 1..10 : Digits[d] = c

DigitVal(c) == (CHOOSE d \in 1..10 : Digits[d] = c) - 1

RECURSIVE DigitsVal(_)
DigitsVal(s) == IF Len(s) = 0 THEN 0
                ELSE 10 * DigitsVal(SubSeq(s, 1, Len(s) - 1)) + DigitVal(s[Len(s)])

\* a conversion whose error is ignored: what is no number counts as 0
AtoiLenient(s) ==
    IF Len(s) > 0 /\ \A k \in 1..Len(s) : IsDigit(s[k])
    THEN [ok |-> TRUE, val |-> DigitsVal(s)]
    ELSE [ok |-> TRUE, val |-> 0]

\* strconv.Atoi: optional sign, then one or more decimal digits
Atoi(s) ==
    LET signed == Len(s) > 0 /\ s[1] \in {"+", "-"}
        body == IF signed THEN SubSeq(s, 2, Len(s)) ELSE s
        ok == Len(body) > 0 /\ \A k \in 1..Len(body) : IsDigit(body[k])
    IN  IF ~ok THEN [ok |-> FALSE, val |-> 0]
        ELSE [ok |-> TRUE,
              val |-> IF signed /\ s[1] = "-" THEN -DigitsVal(body) ELSE DigitsVal(body)]

\* position of the first sep in s, 0 when there is none
IndexOf(s, sep) ==
    IF \E k \in 1..Len(s) : s[k] = sep
    THEN CHOOSE k \in 1..Len(s) : s[k] = sep /\ \A j \in 1..(k - 1) : s[j] # sep
    ELSE 0

\* strings.SplitN(s, sep, n) for n > 0: at most n parts, the last one unsplit
RECURSIVE SplitN(_, _, _)
SplitN(s, sep, n) ==
    IF n = 1 \/ IndexOf(s, sep) = 0 THEN <<s>>
    ELSE <<SubSeq(s, 1, IndexOf(s, sep) - 1)>>
         \o SplitN(SubSeq(s, IndexOf(s, sep) + 1, Len(s)), sep, n - 1)

\* Go maps as functions: delete(m, k) and m[k] = v
Delete(m, k) == [x \in (DOMAIN m) \ {k} |-> m[x]]

Put(m, k, v) == [x \in (DOMAIN m) \cup {k} |-> IF x = k THEN v ELSE m[x]]

(***************************************************************************)
(* State                                                                   *)
(***************************************************************************)
VARIABLES
    \* sender side: one writeFragments call
    sMsg,          \* message being sent (type prefix included)
    sID,           \* msgID of the call
    sSize,         \* chunk size (maxUDPPayloadSize in the program)
    sIdx,          \* loop variable i of writeFragments
    \* the UDP socket of the receiver
    net,           \* datagrams in flight: records [src, data], unordered
    noise,         \* number of unrelated datagrams injected so far
    \* receiver side: one waitForMessageWithFragments call
    wpc,           \* "idle", "reading", "returned", "failed"
    wPrefix,       \* awaited prefix
    deadline,      \* read deadline of the socket
    now,           \* the clock
    chunks,        \* msgID -> chunkIndex -> data
    totalChunks,   \* msgID -> total
    result,        \* [msg, addr, err] returned by the call
    fullMsg,       \* the last reassembled message (local fullMsg)
    reordered,     \* history: a fragment of sID arrived after one of higher index
    lastIdx        \* history: chunkIndex of the fragment that ended the wait

fragVars == <<sMsg, sID, sSize, sIdx, net, noise, wpc, wPrefix, deadline, now,
              chunks, totalChunks, result, fullMsg, reordered, lastIdx>>

VARIABLES
    \* the registry (clients.Manager)
    clients,       \* Manager.clients: id -> [Control, Streams, streamIdx]
    ret,           \* the last call made: [op, id, conn, val], val what it returned
    hist           \* history: per id, the streams NextTarget selected since the
                   \* last AddStream / RemoveStream of that id

regVars == <<clients, ret, hist>>

VARIABLES
    \* the goroutines that use the registry
    mu,            \* Manager.mu: [writer, readers]
    pc,            \* where each goroutine is
    req,           \* per connection: [role, id] of the websocket request
    ids,           \* ForEachClient: the ids fn is still to be called with
    snap,          \* history: the ids as ForEachClient collected them
    visited,       \* history: the ids fn was called with, in order
    target,        \* fn: the connection NextTarget returned
    closedBy,      \* per connection: the goroutines that have called its Close
    rounds         \* frames dispatched so far

lockVars == <<mu, pc, req, ids, snap, visited, target, rounds, closedBy>>

VARIABLES
    \* the frame loop of runPeer (chunked frames on the data channel)
    frameID,       \* id of the frame being sent
    b64,           \* the encoded frame captured in this tick
    cSize,         \* chunk size (chunkSize in the program)
    chunkI,        \* loop variable i of the chunk loop
    ppc,           \* "tick", "meta", "chunks"
    sent,          \* history: the SendText calls made, in order
    ticks          \* ticks served so far

peerVars == <<frameID, b64, cSize, chunkI, ppc, sent, ticks>>

VARIABLES
    \* the signaling handshake: the host's wait for the answer and the
    \* controller's reply
    hpc,           \* host: "sending", "reading", "returned", "failed"
    hDeadline,     \* read deadline of the host's socket
    hChunks,       \* host: msgID -> chunkIndex -> data
    hTotal,        \* host: msgID -> total
    hResult,       \* [msg, addr, err] the host's wait returned
    hnet,          \* datagrams the controller sent: records [src, dst, data]
    aID,           \* msgID of the controller's writeFragments call
    aIdx           \* loop variable i of the controller's writeFragments

handVars == <<hpc, hDeadline, hChunks, hTotal, hResult, hnet, aID, aIdx>>

VARIABLES
    \* one dispatch tick of StartStreamer
    called,        \* history: the ids NextTarget was called with in this tick
    written,       \* history: [id, conn] of the writes fn made in this tick
    cursor0        \* history: id -> streamIdx when the ids were collected

tickVars == <<called, written, cursor0>>

VARIABLES
    \* the /signal handler: requests served concurrently on one UDP socket
    sigpc,         \* per request: "idle", "sent", "reading", "returned", "failed"
    sigOut,        \* datagrams in flight to the peer
    sigIn,         \* datagrams in flight to the socket conn
    sigDeadline,   \* the read deadline of conn
    sigOwn,        \* history: per request, the deadline its call installed
    sigRes,        \* per request: [msg, err] waitForPrefix returned
    sigEnd,        \* history: per request, the time its wait failed
    sigNow         \* the clock

sigVars == <<sigpc, sigOut, sigIn, sigDeadline, sigOwn, sigRes, sigEnd, sigNow>>

vars == <<fragVars, regVars, lockVars, peerVars, handVars, tickVars, sigVars>>

NoAddr == "none"
HostAddr == "host"
OtherAddr == "other"
NoResult == [msg |-> <<>>, addr |-> NoAddr, err |-> "none"]

(***************************************************************************)
(* The client registry: clients.Manager                                    *)
(***************************************************************************)
Nil == "nil"
ClientIDs == {"A", "B"}
Conns == {"c1", "c2"}

\* &Client{}
NewClient == [Control |-> Nil, Streams |-> <<>>, streamIdx |-> 0]

\* Go's % (the result has the sign of the dividend)
GoMod(a, n) == LET r == a % n IN IF a >= 0 \/ r = 0 THEN r ELSE r - n

\* streamIdx is an int: 32 bits wide on the 32-bit platforms (64 on the others)
MaxInt == 2147483647
MinInt == -MaxInt - 1

\* c.streamIdx++ : the increment wraps around
IntInc(x) == IF x = MaxInt THEN MinInt ELSE x + 1

\* what a call yields when c.Streams[idx] is out of range: the run-time panic
Panic == "panic"

\* a getOrCreate that makes a new session for id each time
getOrCreateFresh(m, id) == Put(m, id, NewClient)

\* getOrCreate: the map with a session for id
getOrCreate(m, id) ==
    IF id \in DOMAIN m THEN m ELSE Put(m, id, NewClient)

\* a SetControl whose result is the previous control also when conn is that one
DoSetControlNoCompare(m, id, conn) ==
    LET m1 == getOrCreate(m, id)
        c == m1[id]
    IN  [m |-> Put(m1, id, [c EXCEPT !.Control = conn]),
         ret |-> IF c.Control # Nil THEN c.Control ELSE Nil]

\* SetControl: the new map and the returned old connection
DoSetControl(m, id, conn) ==
    LET m1 == getOrCreate(m, id)
        c == m1[id]
    IN  [m |-> Put(m1, id, [c EXCEPT !.Control = conn]),
         ret |-> IF c.Control # Nil /\ c.Control # conn THEN c.Control ELSE Nil]

\* an AddStream that puts the connection in front
DoAddStreamFront(m, id, conn) ==
    LET m1 == getOrCreate(m, id)
    IN  Put(m1, id, [m1[id] EXCEPT !.Streams = <<conn>> \o @])

\* AddStream: c.Streams = append(c.Streams, conn)
DoAddStream(m, id, conn) ==
    LET m1 == getOrCreate(m, id)
    IN  Put(m1, id, [m1[id] EXCEPT !.Streams = Append(@, conn)])

\* index of the first element of s equal to conn, 0 when there is none
FirstIndex(s, conn) ==
    IF \E i \in 1..Len(s) : s[i] = conn
    THEN CHOOSE i \in 1..Len(s) : s[i] = conn /\ \A j \in 1..(i - 1) : s[j] # conn
    ELSE 0

\* a removal that fills the hole with the last element (breaks the order)
RemoveAtSwap(s, i) ==
    IF i = Len(s) THEN SubSeq(s, 1, Len(s) - 1)
    ELSE SubSeq(s, 1, i - 1) \o <<s[Len(s)]>> \o SubSeq(s, i + 1, Len(s) - 1)

\* append(c.Streams[:i], c.Streams[i+1:]...) for the 1-based position i
RemoveAt(s, i) == SubSeq(s, 1, i - 1) \o SubSeq(s, i + 1, Len(s))

\* a RemoveStream that leaves the sequence as it is
DoRemoveStreamKeep(m, id, conn) == m

\* RemoveStream: the first occurrence of conn leaves the sequence
\* a RemoveStream that drops the session once nothing is left in it
DoRemoveStreamPrune(m, id, conn) ==
    IF id \notin DOMAIN m THEN m
    ELSE IF FirstIndex(m[id].Streams, conn) = 0 THEN m
    ELSE IF m[id].Control = Nil /\ Len(m[id].Streams) = 1 THEN Delete(m, id)
    ELSE Put(m, id, [m[id] EXCEPT !.Streams = RemoveAt(@, FirstIndex(@, conn))])

DoRemoveStream(m, id, conn) ==
    IF id \notin DOMAIN m THEN m
    ELSE IF FirstIndex(m[id].Streams, conn) = 0 THEN m
    ELSE Put(m, id, [m[id] EXCEPT !.Streams = RemoveAt(@, FirstIndex(@, conn))])

\* a RemoveControl that clears the control whatever it is
DoRemoveControlAny(m, id, conn) ==
    IF id \notin DOMAIN m THEN m
    ELSE Put(m, id, [m[id] EXCEPT !.Control = Nil])

\* RemoveControl: clears the control when it is conn
\* a RemoveControl that looks the session up with getOrCreate
DoRemoveControlCreate(m, id, conn) ==
    LET m1 == getOrCreate(m, id)
    IN  IF m1[id].Control = conn THEN Put(m1, id, [m1[id] EXCEPT !.Control = Nil])
        ELSE m1

DoRemoveControl(m, id, conn) ==
    IF id \notin DOMAIN m THEN m
    ELSE IF m[id].Control = conn THEN Put(m, id, [m[id] EXCEPT !.Control = Nil])
    ELSE m

\* a NextTarget that advances the cursor before it selects
DoNextTargetPreIncrement(m, id) ==
    IF id \notin DOMAIN m THEN [m |-> m, ret |-> Nil]
    ELSE IF Len(m[id].Streams) > 0
         THEN [m |-> Put(m, id, [m[id] EXCEPT !.streamIdx = @ + 1]),
               ret |-> m[id].Streams[GoMod(m[id].streamIdx + 1, Len(m[id].Streams)) + 1]]
         ELSE [m |-> m, ret |-> m[id].Control]

\* a NextTarget that selects without advancing the cursor
DoNextTargetNoAdvance(m, id) ==
    IF id \notin DOMAIN m THEN [m |-> m, ret |-> Nil]
    ELSE IF Len(m[id].Streams) > 0
         THEN [m |-> m,
               ret |-> m[id].Streams[GoMod(m[id].streamIdx, Len(m[id].Streams)) + 1]]
         ELSE [m |-> m, ret |-> m[id].Control]

\* a NextTarget that keeps one cursor for all the clients
DoNextTargetSharedCursor(m, id) ==
    IF id \notin DOMAIN m THEN [m |-> m, ret |-> Nil]
    ELSE IF Len(m[id].Streams) > 0
         THEN [m |-> [x \in DOMAIN m |-> [m[x] EXCEPT !.streamIdx = @ + 1]],
               ret |-> m[id].Streams[GoMod(m[id].streamIdx, Len(m[id].Streams)) + 1]]
         ELSE [m |-> m, ret |-> m[id].Control]

\* a NextTarget that indexes with the cursor as it is, not reduced
DoNextTargetNoMod(m, id) ==
    IF id \notin DOMAIN m THEN [m |-> m, ret |-> Nil]
    ELSE IF Len(m[id].Streams) > 0
         THEN IF m[id].streamIdx >= Len(m[id].Streams) THEN [m |-> m, ret |-> Panic]
              ELSE [m |-> Put(m, id, [m[id] EXCEPT !.streamIdx = @ + 1]),
                    ret |-> m[id].Streams[m[id].streamIdx + 1]]
         ELSE [m |-> m, ret |-> m[id].Control]

\* a NextTarget that moves the cursor by two
DoNextTargetByTwo(m, id) ==
    IF id \notin DOMAIN m THEN [m |-> m, ret |-> Nil]
    ELSE IF Len(m[id].Streams) > 0
         THEN [m |-> Put(m, id, [m[id] EXCEPT !.streamIdx = @ + 2]),
               ret |-> m[id].Streams[GoMod(m[id].streamIdx, Len(m[id].Streams)) + 1]]
         ELSE [m |-> m, ret |-> m[id].Control]

\* NextTarget: the new map and the returned target
DoNextTarget(m, id) ==
    IF id \notin DOMAIN m THEN [m |-> m, ret |-> Nil]
    ELSE LET c == m[id]
             n == Len(c.Streams)
         IN  IF n > 0
             THEN LET idx == GoMod(c.streamIdx, n)
                  IN  IF idx < 0 THEN [m |-> m, ret |-> Panic]
                      ELSE [m |-> Put(m, id, [c EXCEPT !.streamIdx = IntInc(@)]),
                            ret |-> c.Streams[idx + 1]]
             ELSE [m |-> m, ret |-> c.Control]

RECURSIVE SumOver(_, _)
SumOver(f, S) ==
    IF S = {} THEN 0
    ELSE LET x == CHOOSE y \in S : TRUE IN f[x] + SumOver(f, S \ {x})

\* stream connections registered, all clients together
StreamCount(m) == SumOver([id \in DOMAIN m |-> Len(m[id].Streams)], DOMAIN m)

\* stream selections made so far
CursorSum(m) == SumOver([id \in DOMAIN m |-> m[id].streamIdx], DOMAIN m)

NoRet == [op |-> "none", id |-> "", conn |-> Nil, val |-> Nil]

Call(op, id, conn, val) == [op |-> op, id |-> id, conn |-> conn, val |-> val]

\* the signaling exchange at rest
FragIdle ==
    /\ sMsg = <<>>
    /\ sID = <<>>
    /\ sSize = maxUDPPayloadSize
    /\ sIdx = 0
    /\ net = {}
    /\ noise = 0
    /\ wpc = "idle"
    /\ wPrefix = <<>>
    /\ deadline = 0
    /\ now = 0
    /\ chunks = <<>>
    /\ totalChunks = <<>>
    /\ result = NoResult
    /\ fullMsg = <<>>
    /\ reordered = FALSE
    /\ lastIdx = -1

\* NewManager(): no client
RegIdle ==
    /\ clients = <<>>
    /\ ret = NoRet
    /\ hist = [id \in ClientIDs |-> <<>>]

None == "none"
Disp == "dispatcher"
Threads == Conns \cup {Disp}
\* the main goroutine, which waits for SIGINT / SIGTERM
Main == "main"
NoReq == [role |-> None, id |-> ""]

\* no goroutine started, the mutex free
LockIdle ==
    /\ mu = [writer |-> None, readers |-> {}]
    /\ pc = [t \in Threads \cup {Main} |-> "idle"]
    /\ req = [c \in Conns |-> NoReq]
    /\ ids = <<>>
    /\ snap = <<>>
    /\ visited = <<>>
    /\ target = Nil
    /\ rounds = 0
    /\ closedBy = [c \in Conns |-> {}]

\* runPeer before the first tick of its frame loop: frameID := 0
PeerIdle ==
    /\ frameID = 0
    /\ b64 = <<>>
    /\ cSize = 12 * 1024
    /\ chunkI = 0
    /\ ppc = "tick"
    /\ sent = <<>>
    /\ ticks = 0

\* the host before its offer is sent
HandIdle ==
    /\ hpc = "sending"
    /\ hDeadline = 0
    /\ hChunks = <<>>
    /\ hTotal = <<>>
    /\ hResult = NoResult
    /\ hnet = {}
    /\ aID = <<>>
    /\ aIdx = 0

\* the streamer before its first tick
TickIdle ==
    /\ called = <<>>
    /\ written = <<>>
    /\ cursor0 = <<>>

Reqs == {"r1", "r2"}

\* no /signal request yet, conn without a read deadline
SigIdle ==
    /\ sigpc = [r \in Reqs |-> "idle"]
    /\ sigOut = {}
    /\ sigIn = {}
    /\ sigDeadline = 0
    /\ sigOwn = [r \in Reqs |-> 0]
    /\ sigRes = [r \in Reqs |-> [msg |-> <<>>, err |-> "none"]]
    /\ sigEnd = [r \in Reqs |-> 0]
    /\ sigNow = 0

SetControl(id, conn) ==
    /\ clients' = DoSetControl(clients, id, conn).m
    /\ ret' = Call("SetControl", id, conn, DoSetControl(clients, id, conn).ret)
    /\ UNCHANGED hist
    /\ UNCHANGED <<fragVars, lockVars, peerVars, handVars, tickVars, sigVars>>

AddStream(id, conn) ==
    /\ StreamCount(clients) < MaxStreams
    /\ clients' = DoAddStream(clients, id, conn)
    /\ ret' = Call("AddStream", id, conn, Nil)
    /\ hist' = [hist EXCEPT ![id] = <<>>]
    /\ UNCHANGED <<fragVars, lockVars, peerVars, handVars, tickVars, sigVars>>

RemoveStream(id, conn) ==
    /\ clients' = DoRemoveStream(clients, id, conn)
    /\ ret' = Call("RemoveStream", id, conn, Nil)
    /\ hist' = [hist EXCEPT ![id] = <<>>]
    /\ UNCHANGED <<fragVars, lockVars, peerVars, handVars, tickVars, sigVars>>

RemoveControl(id, conn) ==
    /\ clients' = DoRemoveControl(clients, id, conn)
    /\ ret' = Call("RemoveControl", id, conn, Nil)
    /\ UNCHANGED hist
    /\ UNCHANGED <<fragVars, lockVars, peerVars, handVars, tickVars, sigVars>>

NextTarget(id) ==
    /\ CursorSum(clients) < MaxCalls
    /\ clients' = DoNextTarget(clients, id).m
    /\ ret' = Call("NextTarget", id, Nil, DoNextTarget(clients, id).ret)
    /\ UNCHANGED hist
    /\ UNCHANGED <<fragVars, lockVars, peerVars, handVars, tickVars, sigVars>>

\* the same call, its selection written to the history
NextTargetRecorded(id) ==
    /\ CursorSum(clients) < MaxCalls
    /\ clients' = DoNextTarget(clients, id).m
    /\ ret' = Call("NextTarget", id, Nil, DoNextTarget(clients, id).ret)
    /\ hist' = IF id \in DOMAIN clients /\ Len(clients[id].Streams) > 0
               THEN [hist EXCEPT ![id] = Append(@, DoNextTarget(clients, id).ret)]
               ELSE hist
    /\ UNCHANGED <<fragVars, lockVars, peerVars, handVars, tickVars, sigVars>>

Init == FragIdle /\ RegIdle /\ LockIdle /\ PeerIdle /\ HandIdle /\ TickIdle /\ SigIdle

Next ==
    \/ \E id \in ClientIDs, conn \in Conns : SetControl(id, conn)
    \/ \E id \in ClientIDs, conn \in Conns : AddStream(id, conn)
    \/ \E id \in ClientIDs, conn \in Conns : RemoveStream(id, conn)
    \/ \E id \in ClientIDs, conn \in Conns : RemoveControl(id, conn)
    \/ \E id \in ClientIDs : NextTarget(id)

Spec == Init /\ [][Next]_vars

\* a cursor within MaxWrap selections of the wrap-around
NearWrap(x) == x >= MaxInt - MaxWrap \/ x < MinInt + MaxWrap

\* NextTarget for a client whose cursor is about to wrap or has just wrapped
NextTargetWrap(id) ==
    /\ id \in DOMAIN clients => NearWrap(clients[id].streamIdx)
    /\ clients' = DoNextTarget(clients, id).m
    /\ ret' = Call("NextTarget", id, Nil, DoNextTarget(clients, id).ret)
    /\ UNCHANGED hist
    /\ UNCHANGED <<fragVars, lockVars, peerVars, handVars, tickVars, sigVars>>

\* The registry after close to 2^31 selections for client A: the cursor is
\* within MaxWrap of the largest int
InitWrap ==
    /\ FragIdle
    /\ LockIdle
    /\ PeerIdle
    /\ HandIdle
    /\ TickIdle
    /\ SigIdle
    /\ ret = NoRet
    /\ hist = [id \in ClientIDs |-> <<>>]
    /\ \E s \in {<<"c1">>, <<"c1", "c2">>}, k \in 0..MaxWrap :
           clients = Put(<<>>, "A", [Control |-> Nil, Streams |-> s,
                                     streamIdx |-> MaxInt - k])

\* a panic ends the program
NextWrap ==
    \/ \E id \in ClientIDs, conn \in Conns : ret.val # Panic /\ AddStream(id, conn)
    \/ \E id \in ClientIDs, conn \in Conns : ret.val # Panic /\ RemoveStream(id, conn)
    \/ \E id \in ClientIDs : ret.val # Panic /\ NextTargetWrap(id)

SpecWrap == InitWrap /\ [][NextWrap]_vars

\* The registry with the selections of NextTarget recorded
NextRounds ==
    \/ \E id \in ClientIDs, conn \in Conns : SetControl(id, conn)
    \/ \E id \in ClientIDs, conn \in Conns : AddStream(id, conn)
    \/ \E id \in ClientIDs, conn \in Conns : RemoveStream(id, conn)
    \/ \E id \in ClientIDs, conn \in Conns : RemoveControl(id, conn)
    \/ \E id \in ClientIDs : NextTargetRecorded(id)

SpecRounds == Init /\ [][NextRounds]_vars

\* the stream connections of the server: HandleWS adds every websocket it
\* upgrades once
StreamConns == Conns \cup {"c3"}

\* what is remembered of the last selection for a client once its streams
\* are c: nothing with fewer than two streams
Touched(h, m, id) ==
    IF id \notin DOMAIN m \/ h = <<>> THEN <<>>
    ELSE IF Len(m[id].Streams) < 2 THEN <<>>
    ELSE <<h[1], "changed">>

\* the registry calls of the handlers and the streamer; hist[id] holds the
\* connection the last NextTarget(id) returned, while the client has had two
\* streams or more ever since, and whether its streams changed since
AddStreamTracked(id, conn) ==
    /\ StreamCount(clients) < MaxStreams
    /\ \A x \in DOMAIN clients : conn \notin {clients[x].Streams[i] : i \in DOMAIN clients[x].Streams}
    /\ clients' = DoAddStream(clients, id, conn)
    /\ ret' = Call("AddStream", id, conn, Nil)
    /\ hist' = [hist EXCEPT ![id] = Touched(@, clients', id)]
    /\ UNCHANGED <<fragVars, lockVars, peerVars, handVars, tickVars, sigVars>>

RemoveStreamTracked(id, conn) ==
    /\ clients' = DoRemoveStream(clients, id, conn)
    /\ ret' = Call("RemoveStream", id, conn, Nil)
    /\ hist' = IF clients' = clients THEN hist
               ELSE [hist EXCEPT ![id] = Touched(@, clients', id)]
    /\ UNCHANGED <<fragVars, lockVars, peerVars, handVars, tickVars, sigVars>>

NextTargetTracked(id) ==
    /\ CursorSum(clients) < MaxCalls
    /\ clients' = DoNextTarget(clients, id).m
    /\ ret' = Call("NextTarget", id, Nil, DoNextTarget(clients, id).ret)
    /\ hist' = IF id \in DOMAIN clients /\ Len(clients[id].Streams) >= 2
               THEN [hist EXCEPT ![id] = <<DoNextTarget(clients, id).ret, "same">>]
               ELSE [hist EXCEPT ![id] = <<>>]
    /\ UNCHANGED <<fragVars, lockVars, peerVars, handVars, tickVars, sigVars>>

NextConsec ==
    \/ \E id \in ClientIDs, conn \in Conns : SetControl(id, conn)
    \/ \E id \in ClientIDs, conn \in StreamConns : AddStreamTracked(id, conn)
    \/ \E id \in ClientIDs, conn \in StreamConns : RemoveStreamTracked(id, conn)
    \/ \E id \in ClientIDs, conn \in Conns : RemoveControl(id, conn)
    \/ \E id \in ClientIDs : NextTargetTracked(id)

SpecConsec == Init /\ [][NextConsec]_vars

(***************************************************************************)
(* C2: NextTarget(id) against its reference. With n >= 1 streams it        *)
(* returns Streams[cursor mod n] and adds one to the cursor; with no       *)
(* stream it returns the control connection, whatever the cursor, and      *)
(* changes nothing; with neither, or an unknown id, it returns no target.  *)
(***************************************************************************)
C2_Ref(id) ==
    IF id \notin DOMAIN clients
    THEN ret'.val = Nil /\ clients' = clients
    ELSE IF Len(clients[id].Streams) >= 1
         THEN /\ ret'.val = clients[id].Streams[
                               (clients[id].streamIdx % Len(clients[id].Streams)) + 1]
              /\ DOMAIN clients' = DOMAIN clients
              /\ clients'[id].streamIdx = clients[id].streamIdx + 1
              /\ clients'[id].Streams = clients[id].Streams
              /\ clients'[id].Control = clients[id].Control
              /\ \A o \in DOMAIN clients \ {id} : clients'[o] = clients[o]
         ELSE ret'.val = clients[id].Control /\ clients' = clients

C2_NextTargetReference ==
    [][ret'.op = "NextTarget" => C2_Ref(ret'.id)]_vars

\* the fallback taken with a cursor that earlier stream selections advanced
C2_Witness ==
    /\ ret.op = "NextTarget"
    /\ ret.id \in DOMAIN clients
    /\ clients[ret.id].Streams = <<>>
    /\ clients[ret.id].streamIdx > 0
    /\ clients[ret.id].Control # Nil
    /\ ret.val = clients[ret.id].Control

(***************************************************************************)
(* C3: round-robin fairness. The N consecutive selections made for a       *)
(* client since its stream sequence last changed visit its k streams in    *)
(* the cyclic order of the sequence, so each connection is selected        *)
(* floor(N/k) or ceil(N/k) times; after AddStream(A,c1), AddStream(A,c2),  *)
(* four calls yield c1, c2, c1, c2.                                        *)
(***************************************************************************)
Count(h, c) == Cardinality({i \in 1..Len(h) : h[i] = c})

Distinct(s) == \A i, j \in 1..Len(s) : s[i] = s[j] => i = j

C3_Fairness ==
    \A id \in DOMAIN clients :
        LET s == clients[id].Streams
            k == Len(s)
            h == hist[id]
            N == Len(h)
            start == clients[id].streamIdx - N
        IN  (k >= 1 /\ N >= 1) =>
              /\ \A i \in 1..N : h[i] = s[((start + i - 1) % k) + 1]
              /\ Distinct(s) =>
                   \A j \in 1..k : Count(h, s[j]) \in {N \div k, (N + k - 1) \div k}
              /\ (s = <<"c1", "c2">> /\ start = 0 /\ N = 4) =>
                   h = <<"c1", "c2", "c1", "c2">>

C3_Witness ==
    /\ "A" \in DOMAIN clients
    /\ clients["A"] = [Control |-> Nil, Streams |-> <<"c1", "c2">>, streamIdx |-> 4]
    /\ hist["A"] = <<"c1", "c2", "c1", "c2">>

(***************************************************************************)
(* C5: SetControl(id, conn) creates the session if absent, leaves conn     *)
(* installed as control, returns the previous control exactly when there   *)
(* was one and it is not conn, and changes neither the streams and cursor  *)
(* of id nor any other client.                                             *)
(***************************************************************************)
Before(id) == IF id \in DOMAIN clients THEN clients[id] ELSE NewClient

C5_Post(id, conn) ==
    /\ DOMAIN clients' = DOMAIN clients \cup {id}
    /\ clients'[id].Control = conn
    /\ ret'.val = IF Before(id).Control \notin {Nil, conn}
                  THEN Before(id).Control ELSE Nil
    /\ clients'[id].Streams = Before(id).Streams
    /\ clients'[id].streamIdx = Before(id).streamIdx
    /\ \A o \in DOMAIN clients \ {id} : clients'[o] = clients[o]

C5_SetControl ==
    [][ret'.op = "SetControl" => C5_Post(ret'.id, ret'.conn)]_vars

\* a control connection was superseded by a different one and handed back
C5_Witness ==
    /\ ret.op = "SetControl"
    /\ ret.val # Nil
    /\ ret.val # ret.conn
    /\ ret.id \in DOMAIN clients
    /\ clients[ret.id].Control = ret.conn

(***************************************************************************)
(* C6: AddStream appends conn to the end of the client's stream sequence;  *)
(* RemoveStream takes out the first occurrence of conn and keeps the       *)
(* others in their order; neither touches the control connection, the      *)
(* cursor, or another client's session.                                    *)
(***************************************************************************)
\* s without its element at position i, the others in place
Without(s, i) == [k \in 1..(Len(s) - 1) |-> IF k < i THEN s[k] ELSE s[k + 1]]

C6_Removed(s, t, conn) ==
    IF \E i \in 1..Len(s) : s[i] = conn
    THEN \E i \in 1..Len(s) :
            /\ s[i] = conn
            /\ \A j \in 1..(i - 1) : s[j] # conn
            /\ t = Without(s, i)
    ELSE t = s

C6_Added(id, conn) ==
    /\ DOMAIN clients' = DOMAIN clients \cup {id}
    /\ Len(clients'[id].Streams) = Len(Before(id).Streams) + 1
    /\ clients'[id].Streams[Len(clients'[id].Streams)] = conn
    /\ \A k \in 1..Len(Before(id).Streams) :
          clients'[id].Streams[k] = Before(id).Streams[k]
    /\ clients'[id].Control = Before(id).Control
    /\ clients'[id].streamIdx = Before(id).streamIdx
    /\ \A o \in DOMAIN clients \ {id} : clients'[o] = clients[o]

C6_Taken(id, conn) ==
    /\ DOMAIN clients' = DOMAIN clients
    /\ id \in DOMAIN clients =>
          /\ C6_Removed(clients[id].Streams, clients'[id].Streams, conn)
          /\ clients'[id].Control = clients[id].Control
          /\ clients'[id].streamIdx = clients[id].streamIdx
    /\ \A o \in DOMAIN clients \ {id} : clients'[o] = clients[o]

C6_Streams ==
    [][/\ ret'.op = "AddStream" => C6_Added(ret'.id, ret'.conn)
       /\ ret'.op = "RemoveStream" => C6_Taken(ret'.id, ret'.conn)]_vars

\* c1 was removed from a sequence that held it twice: the later one stays,
\* behind the c2 that was between them
C6_Witness ==
    /\ ret.op = "RemoveStream"
    /\ ret.conn = "c1"
    /\ ret.id \in DOMAIN clients
    /\ clients[ret.id].Streams = <<"c2", "c1">>
    /\ StreamCount(clients) = MaxStreams - 1

(***************************************************************************)
(* C10: isolation. A call on one client (the removal of its only stream    *)
(* connection included) leaves the sequence of targets that the following  *)
(* NextTarget calls return for every other client as it was.               *)
(***************************************************************************)
RECURSIVE Targets(_, _, _)
Targets(m, id, n) ==
    IF n = 0 THEN <<>>
    ELSE LET r == DoNextTarget(m, id)
         IN  <<r.ret>> \o Targets(r.m, id, n - 1)

\* one full cycle over the streams of id, and one call more
Cycle(m, id) == IF id \in DOMAIN m THEN Len(m[id].Streams) + 1 ELSE 1

C10_Isolation ==
    [][\A o \in ClientIDs :
         ret'.id # o =>
           /\ Targets(clients', o, Cycle(clients', o)) = Targets(clients, o, Cycle(clients, o))
           /\ o \in DOMAIN clients => (o \in DOMAIN clients' /\ clients'[o] = clients[o])
           /\ o \notin DOMAIN clients => o \notin DOMAIN clients']_vars

\* A lost its only stream connection while B was in the middle of its round
C10_Witness ==
    /\ ret = Call("RemoveStream", "A", "c1", Nil)
    /\ DOMAIN clients = {"A", "B"}
    /\ clients["A"].Streams = <<>>
    /\ clients["A"].streamIdx > 0
    /\ clients["B"].Streams = <<"c1", "c2">>
    /\ clients["B"].streamIdx = 1

(***************************************************************************)
(* writeFragments                                                          *)
(***************************************************************************)
\* a chunk count that does not round: one chunk more than the whole chunks
NumChunksExtra(message, size) == (Len(message) \div size) + 1

\* numChunks := (len(message) + maxUDPPayloadSize - 1) / maxUDPPayloadSize
NumChunks(message, size) == (Len(message) + size - 1) \div size

\* chunks that overlap: each one after the first starts a character early
ChunkDataOverlap(message, size, i) ==
    LET start == IF i > 0 THEN i * size - 1 ELSE 0
        end0 == i * size + size
        end == IF end0 > Len(message) THEN Len(message) ELSE end0
    IN  Slice(message, start, end)

\* chunkData of loop iteration i
ChunkData(message, size, i) ==
    LET start == i * size
        end0 == start + size
        end == IF end0 > Len(message) THEN Len(message) ELSE end0
    IN  Slice(message, start, end)

\* header := fmt.Sprintf("FRAG:%s:%d:%d:", msgID, numChunks, i)
Header(msgID, numChunks, i) ==
    FRAG \o msgID \o <<COLON>> \o Itoa(numChunks) \o <<COLON>> \o Itoa(i) \o <<COLON>>

Chunk(msgID, message, size, i) ==
    Header(msgID, NumChunks(message, size), i) \o ChunkData(message, size, i)

\* one iteration of the loop of writeFragments: conn.WriteToUDP(chunk, addr)
writeFragments ==
    /\ sIdx < NumChunks(sMsg, sSize)
    /\ net' = net \cup {[src |-> HostAddr, data |-> Chunk(sID, sMsg, sSize, sIdx)]}
    /\ sIdx' = sIdx + 1
    /\ UNCHANGED <<sMsg, sID, sSize, noise, wpc, wPrefix, deadline, now, chunks,
                   totalChunks, result, fullMsg, reordered, lastIdx>>
    /\ UNCHANGED <<regVars, lockVars, peerVars, handVars, tickVars, sigVars>>

(***************************************************************************)
(* waitForMessageWithFragments                                             *)
(***************************************************************************)
Min(S) == CHOOSE x \in S : \A y \in S : x <= y

Max(S) == CHOOSE x \in S : \A y \in S : x >= y

\* the keys taken in another order than the sorted one (descending), as ranging
\* over the map without sort.Ints may do
RECURSIVE ConcatDescending(_, _)
ConcatDescending(m, keys) ==
    IF keys = {} THEN <<>>
    ELSE m[Max(keys)] \o ConcatDescending(m, keys \ {Max(keys)})

\* sort.Ints(keys), then reassembled.WriteString(chunks[msgID][k]) for each k
RECURSIVE ConcatSorted(_, _)
ConcatSorted(m, keys) ==
    IF keys = {} THEN <<>>
    ELSE m[Min(keys)] \o ConcatSorted(m, keys \ {Min(keys)})

Reassemble(m) == ConcatSorted(m, DOMAIN m)

\* conn.ReadFromUDP(buf): a datagram longer than the buffer is cut to it
ReadFromUDP(data, size) ==
    IF Len(data) > size + BufSlack THEN SubSeq(data, 1, size + BufSlack) ELSE data

\* the read deadline a call installs: conn.SetReadDeadline(time.Now().Add(timeout))
SetReadDeadline(t, timeout) == t + timeout

\* a loop that pushes the deadline back whenever it has read a datagram
DeadlineExtended(dl, t) == dl + 1

\* the read deadline once the loop has read a datagram at time t: the loop never
\* calls SetReadDeadline again, so it is the one the call installed

DeadlineAfterRead(dl, t) == dl

\* a reassembly taken as complete once the chunk of the last index is there
CompleteOnLast(entry, total) == (total - 1) \in DOMAIN entry

\* len(chunks[msgID]) == totalChunks[msgID]
Complete(entry, total) == Cardinality(DOMAIN entry) = total

\* a table that adds the payload to what it holds under the index
StoreAppend(entry, chunkIndex, payload) ==
    IF chunkIndex \in DOMAIN entry
    THEN Put(entry, chunkIndex, entry[chunkIndex] \o payload)
    ELSE Put(entry, chunkIndex, payload)

\* chunks[msgID][chunkIndex] = payload
Store(entry, chunkIndex, payload) == Put(entry, chunkIndex, payload)

\* One iteration of the loop on the datagram text msg, from the tables ch / tot:
\* the new tables, whether the call returns, and what it returns.
Iteration(ch, tot, prefix, msg) ==
    LET parts == SplitN(msg, COLON, 5)
        keep == [ch |-> ch, tot |-> tot, done |-> FALSE, ret |-> <<>>,
                 full |-> <<>>, complete |-> FALSE]
    IN
    IF HasPrefix(msg, FRAG) THEN
        IF Len(parts) < 5 THEN keep
        ELSE IF ~Atoi(parts[3]).ok THEN keep
        ELSE IF ~Atoi(parts[4]).ok THEN keep
        ELSE
            LET msgID == parts[2]
                numChunks == Atoi(parts[3]).val
                chunkIndex == Atoi(parts[4]).val
                payload == parts[5]
                isNew == msgID \notin DOMAIN ch
                tot1 == IF isNew THEN Put(tot, msgID, numChunks) ELSE tot
                entry == IF isNew THEN <<>> ELSE ch[msgID]
                ch1 == Put(ch, msgID, Store(entry, chunkIndex, payload))
                full == Reassemble(ch1[msgID])
            IN  IF Complete(ch1[msgID], tot1[msgID]) THEN
                    IF HasPrefix(full, prefix)
                    THEN [ch |-> Delete(ch1, msgID), tot |-> Delete(tot1, msgID),
                          done |-> TRUE, ret |-> TrimPrefix(full, prefix),
                          full |-> full, complete |-> TRUE]
                    ELSE [ch |-> ch1, tot |-> tot1, done |-> FALSE, ret |-> <<>>,
                          full |-> full, complete |-> TRUE]
                ELSE [ch |-> ch1, tot |-> tot1, done |-> FALSE, ret |-> <<>>,
                      full |-> <<>>, complete |-> FALSE]
    ELSE IF HasPrefix(msg, prefix)
         THEN [ch |-> ch, tot |-> tot, done |-> TRUE, ret |-> TrimPrefix(msg, prefix),
               full |-> <<>>, complete |-> FALSE]
         ELSE keep

\* the chunkIndex a datagram of message id carries, -1 when it is no such fragment
FragIndexOf(msg, id) ==
    LET parts == SplitN(msg, COLON, 5)
    IN  IF HasPrefix(msg, FRAG) /\ Len(parts) = 5 /\ parts[2] = id
           /\ Atoi(parts[3]).ok /\ Atoi(parts[4]).ok
        THEN Atoi(parts[4]).val ELSE -1

\* a call that goes on with the tables the previous call left
TablesKept == [ch |-> chunks, tot |-> totalChunks]

\* chunks := make(map[string]map[int]string); totalChunks := make(map[string]int)
MakeTables == [ch |-> <<>>, tot |-> <<>>]

\* the call: the deadline is set once, the tables start empty
waitForMessageWithFragments(prefix, timeout) ==
    /\ wpc = "idle"
    /\ wpc' = "reading"
    /\ wPrefix' = prefix
    /\ deadline' = SetReadDeadline(now, timeout)
    /\ chunks' = MakeTables.ch
    /\ totalChunks' = MakeTables.tot
    /\ UNCHANGED <<sMsg, sID, sSize, sIdx, net, noise, now, result, fullMsg,
                   reordered, lastIdx>>
    /\ UNCHANGED <<regVars, lockVars, peerVars, handVars, tickVars, sigVars>>

\* one loop iteration whose ReadFromUDP delivers datagram d; rest is what is
\* in flight afterwards
Receive(d, rest) ==
    /\ wpc = "reading"
    /\ d \in net
    /\ now < deadline
    /\ LET msg == ReadFromUDP(d.data, sSize)
           r == Iteration(chunks, totalChunks, wPrefix, msg)
           idx == FragIndexOf(msg, sID)
       IN  /\ net' = rest
           /\ chunks' = r.ch
           /\ totalChunks' = r.tot
           /\ fullMsg' = IF r.complete THEN r.full ELSE fullMsg
           /\ wpc' = IF r.done THEN "returned" ELSE "reading"
           /\ result' = IF r.done THEN [msg |-> r.ret, addr |-> d.src, err |-> "none"]
                        ELSE result
           /\ reordered' = (reordered \/ (idx >= 0 /\ sID \in DOMAIN chunks
                                         /\ \E k \in DOMAIN chunks[sID] : k > idx))
           /\ lastIdx' = IF r.done THEN idx ELSE lastIdx
           /\ deadline' = DeadlineAfterRead(deadline, now)
    /\ UNCHANGED <<sMsg, sID, sSize, sIdx, noise, wPrefix, now>>
    /\ UNCHANGED <<regVars, lockVars, peerVars, handVars, tickVars, sigVars>>

ReadDatagram(d) == Receive(d, net \ {d})

\* the network delivers d and will deliver it once more (UDP may duplicate)
ReadDuplicate(d) == Receive(d, net)

\* a datagram written with WriteToUDP never arrives: nothing tells the sender,
\* nothing sends it again
Lose(d) ==
    /\ d \in net
    /\ net' = net \ {d}
    /\ UNCHANGED <<sMsg, sID, sSize, sIdx, noise, wpc, wPrefix, deadline, now,
                   chunks, totalChunks, result, fullMsg, reordered, lastIdx>>
    /\ UNCHANGED <<regVars, lockVars, peerVars, handVars, tickVars, sigVars>>

\* the caller takes the result; the socket can serve the next wait
NextCall ==
    /\ wpc \in {"returned", "failed"}
    /\ now < MaxTime
    /\ wpc' = "idle"
    /\ UNCHANGED <<sMsg, sID, sSize, sIdx, net, noise, wPrefix, deadline, now,
                   chunks, totalChunks, result, fullMsg, reordered, lastIdx>>
    /\ UNCHANGED <<regVars, lockVars, peerVars, handVars, tickVars, sigVars>>

\* ReadFromUDP fails at the read deadline: return "", nil, err
ReadTimeout ==
    /\ wpc = "reading"
    /\ now >= deadline
    /\ wpc' = "failed"
    /\ result' = [msg |-> <<>>, addr |-> NoAddr, err |-> "timeout"]
    /\ UNCHANGED <<sMsg, sID, sSize, sIdx, net, noise, wPrefix, deadline, now,
                   chunks, totalChunks, fullMsg, reordered, lastIdx>>
    /\ UNCHANGED <<regVars, lockVars, peerVars, handVars, tickVars, sigVars>>

\* time passes
Tick ==
    /\ \/ now < MaxTime
       \/ wpc = "reading" /\ now < deadline
       \/ hpc = "reading" /\ now < hDeadline
    /\ now' = now + 1
    /\ UNCHANGED <<sMsg, sID, sSize, sIdx, net, noise, wpc, wPrefix, deadline,
                   chunks, totalChunks, result, fullMsg, reordered, lastIdx>>
    /\ UNCHANGED <<regVars, lockVars, peerVars, handVars, tickVars, sigVars>>

\* malformed fragments: too few fields, a total or an index that is no number,
\* under an id of their own or under the id of the message being sent
Malformed ==
    { FRAG \o <<"9", COLON, "2">>,
      FRAG \o <<"9", COLON, "x", COLON, "0", COLON, "a">>,
      FRAG \o sID \o <<COLON, "x", COLON, "1", COLON, "a">>,
      FRAG \o sID \o <<COLON, "3", COLON, "y", COLON, "a">> }

\* unrelated traffic reaching the socket: another type tag, malformed
\* fragments, a fragment of a message that never completes
Unrelated(prefix) ==
    { (CHOOSE p \in Prefixes : p # prefix) \o <<"a">>,
      FRAG \o <<"9", COLON, "2", COLON, "0", COLON>> \o prefix } \cup Malformed

Inject(data) ==
    /\ wpc = "reading"
    /\ noise < MaxNoise
    /\ data \in Unrelated(wPrefix)
    /\ [src |-> OtherAddr, data |-> data] \notin net
    /\ net' = net \cup {[src |-> OtherAddr, data |-> data]}
    /\ noise' = noise + 1
    /\ UNCHANGED <<sMsg, sID, sSize, sIdx, wpc, wPrefix, deadline, now, chunks,
                   totalChunks, result, fullMsg, reordered, lastIdx>>
    /\ UNCHANGED <<regVars, lockVars, peerVars, handVars, tickVars, sigVars>>

(***************************************************************************)
(* Specification of the signaling exchange                                 *)
(***************************************************************************)
Rep(c, n) == [k \in 1..n |-> c]

Bodies == {Rep("a", n) : n \in 0..MaxBodyLen}

SmallMessages == {p \o b : p \in Prefixes, b \in Bodies}

\* a long offer whose characters vary with their position
LongMessage == OFFER \o [k \in 1..(LongLen - Len(OFFER)) |-> Digits[(k % 7) + 1]]

MsgIDs == {<<"4", "2">>}

InitFrag ==
    /\ \/ sMsg \in SmallMessages /\ sSize \in 1..MaxChunk
       \/ sMsg = LongMessage /\ sSize = maxUDPPayloadSize
    /\ sID \in MsgIDs
    /\ sIdx = 0
    /\ net = {}
    /\ noise = 0
    /\ wpc = "idle"
    /\ wPrefix = <<>>
    /\ deadline = 0
    /\ now = 0
    /\ chunks = <<>>
    /\ totalChunks = <<>>
    /\ result = NoResult
    /\ fullMsg = <<>>
    /\ reordered = FALSE
    /\ lastIdx = -1
    /\ RegIdle
    /\ LockIdle
    /\ PeerIdle
    /\ HandIdle
    /\ TickIdle
    /\ SigIdle

NextFrag ==
    \/ writeFragments
    \/ \E p \in Prefixes : waitForMessageWithFragments(p, MaxTime)
    \/ \E d \in net : ReadDatagram(d)
    \/ ReadTimeout
    \/ Tick

SpecFrag == InitFrag /\ [][NextFrag]_vars

\* The same exchange with unrelated traffic reaching the socket during the wait
InitWait ==
    /\ InitFrag
    /\ sSize = MaxChunk
    /\ sMsg \in {p \o <<"a">> : p \in Prefixes}

NextWait ==
    \/ writeFragments
    \/ \E p \in Prefixes, t \in 1..MaxTime : waitForMessageWithFragments(p, t)
    \/ \E d \in net : ReadDatagram(d)
    \/ ReadTimeout
    \/ Tick
    \/ \E data \in Unrelated(wPrefix) : Inject(data)

SpecWait == InitWait /\ [][NextWait]_vars

\* time passes, and a read whose deadline has passed fails
SpecWaitLive == SpecWait /\ WF_vars(Tick) /\ WF_vars(ReadTimeout)

\* Messages of any length and content, the empty one included, sent in small
\* chunks or in chunks of the program's size
SendMessages == {Rep("a", n) : n \in 0..MaxSendLen} \cup SmallMessages

InitSend ==
    /\ \/ sMsg \in SendMessages /\ sSize \in (1..MaxChunk) \cup {maxUDPPayloadSize}
       \/ sMsg = LongMessage /\ sSize = maxUDPPayloadSize
    /\ sID \in MsgIDs
    /\ sIdx = 0
    /\ net = {}
    /\ noise = 0
    /\ wpc = "idle"
    /\ wPrefix = <<>>
    /\ deadline = 0
    /\ now = 0
    /\ chunks = <<>>
    /\ totalChunks = <<>>
    /\ result = NoResult
    /\ fullMsg = <<>>
    /\ reordered = FALSE
    /\ lastIdx = -1
    /\ RegIdle
    /\ LockIdle
    /\ PeerIdle
    /\ HandIdle
    /\ TickIdle
    /\ SigIdle

SpecSend == InitSend /\ [][NextFrag]_vars

\* The exchange with malformed fragments reaching the socket during the wait
NextMalformed ==
    \/ writeFragments
    \/ \E p \in Prefixes, t \in 1..MaxTime : waitForMessageWithFragments(p, t)
    \/ \E d \in net : ReadDatagram(d)
    \/ ReadTimeout
    \/ Tick
    \/ \E data \in Malformed : Inject(data)

SpecMalformed == InitWait /\ [][NextMalformed]_vars

\* well-formed fragments under the id of the message being sent that its
\* sender never made: a chunkIndex equal to the total, a negative one, and a
\* total that differs
Stray ==
    LET n == NumChunks(sMsg, sSize)
    IN  { Header(sID, n, n) \o <<"x">>,
          Header(sID, n, -1) \o <<"x">>,
          Header(sID, n + 1, 0) \o <<"x">> }

\* any host can write such a datagram to the socket
InjectStray(data) ==
    /\ wpc = "reading"
    /\ noise < MaxNoise
    /\ data \in Stray
    /\ [src |-> OtherAddr, data |-> data] \notin net
    /\ net' = net \cup {[src |-> OtherAddr, data |-> data]}
    /\ noise' = noise + 1
    /\ UNCHANGED <<sMsg, sID, sSize, sIdx, wpc, wPrefix, deadline, now, chunks,
                   totalChunks, result, fullMsg, reordered, lastIdx>>
    /\ UNCHANGED <<regVars, lockVars, peerVars, handVars, tickVars, sigVars>>

\* The exchange while well-formed fragments of another origin arrive
NextStray ==
    \/ writeFragments
    \/ \E p \in Prefixes, t \in 1..MaxTime : waitForMessageWithFragments(p, t)
    \/ \E d \in net : ReadDatagram(d)
    \/ ReadTimeout
    \/ Tick
    \/ \E data \in Stray : InjectStray(data)

SpecStray == InitWait /\ [][NextStray]_vars

\* The exchange over a network that loses datagrams
NextLoss ==
    \/ writeFragments
    \/ \E p \in Prefixes : waitForMessageWithFragments(p, MaxTime)
    \/ \E d \in net : ReadDatagram(d)
    \/ \E d \in net : Lose(d)
    \/ ReadTimeout
    \/ Tick

\* short messages cut into two to four chunks
InitLoss ==
    /\ InitFrag
    /\ sMsg \in SmallMessages
    /\ sSize \in {MaxChunk - 1, MaxChunk}

SpecLoss == InitLoss /\ [][NextLoss]_vars

\* time passes, and a read whose deadline has passed fails
SpecLossLive == SpecLoss /\ WF_vars(Tick) /\ WF_vars(ReadTimeout)

\* a second message of the peer, carrying the awaited type tag
SecondID == <<"7">>
SecondMsg(prefix) == prefix \o <<"b">>

\* the datagrams in which the second message can arrive: as it is, or as the
\* two fragments writeFragments makes of it with the tag as chunk size
Second(prefix) ==
    {SecondMsg(prefix)} \cup
    {Chunk(SecondID, SecondMsg(prefix), Len(prefix), i) : i \in 0..1}

\* a datagram of the second message reaches the socket
SendSecond(data) ==
    /\ wpc = "reading"
    /\ noise < MaxSecond
    /\ data \in Second(wPrefix)
    /\ [src |-> HostAddr, data |-> data] \notin net
    /\ net' = net \cup {[src |-> HostAddr, data |-> data]}
    /\ noise' = noise + 1
    /\ UNCHANGED <<sMsg, sID, sSize, sIdx, wpc, wPrefix, deadline, now, chunks,
                   totalChunks, result, fullMsg, reordered, lastIdx>>
    /\ UNCHANGED <<regVars, lockVars, peerVars, handVars, tickVars, sigVars>>

\* The exchange in which a second message follows the first during the wait
NextSecond ==
    \/ writeFragments
    \/ \E p \in Prefixes, t \in 1..MaxTime : waitForMessageWithFragments(p, t)
    \/ \E d \in net : ReadDatagram(d)
    \/ ReadTimeout
    \/ Tick
    \/ \E p \in Prefixes : \E data \in Second(p) : wPrefix = p /\ SendSecond(data)

SpecSecond == InitWait /\ [][NextSecond]_vars

\* Successive waits on one socket whose network duplicates datagrams
NextDup ==
    \/ writeFragments
    \/ \E p \in Prefixes : waitForMessageWithFragments(p, MaxTime)
    \/ \E d \in net : ReadDatagram(d)
    \/ \E d \in net : ReadDuplicate(d)
    \/ ReadTimeout
    \/ Tick
    \/ NextCall

SpecDup == InitWait /\ [][NextDup]_vars

\* Successive waits on one socket that delivers every datagram once, while a
\* second message of the peer arrives
NextSeq ==
    \/ writeFragments
    \/ \E p \in Prefixes : waitForMessageWithFragments(p, MaxTime)
    \/ \E d \in net : ReadDatagram(d)
    \/ ReadTimeout
    \/ Tick
    \/ NextCall
    \/ \E p \in Prefixes : \E data \in Second(p) : wPrefix = p /\ SendSecond(data)

SpecSeq == InitWait /\ [][NextSeq]_vars

(***************************************************************************)
(* The signaling handshake: host (offer, then wait for the answer) and     *)
(* controller (wait for the offer, then answer)                            *)
(***************************************************************************)
CtrlAddr == "controller"

\* the answer the controller's peer connection makes of an offer
AnswerOf(offer) == <<"r">> \o offer

\* "ANSWER:"+answerPayload
AnswerMsg(offer) == ANSWER \o AnswerOf(offer)

\* a controller that answers to a configured address
AnswerDstConfigured(r) == OtherAddr

\* writeFragments(conn, remoteAddr, msgID, ...): remoteAddr is the address the
\* wait for the offer returned
AnswerDst(r) == r.addr

\* host: the offer is sent; waitForMessageWithFragments(conn, "ANSWER:", ...)
HostWait(timeout) ==
    /\ hpc = "sending"
    /\ sIdx = NumChunks(sMsg, sSize)
    /\ hpc' = "reading"
    /\ hDeadline' = SetReadDeadline(now, timeout)
    /\ hChunks' = MakeTables.ch
    /\ hTotal' = MakeTables.tot
    /\ UNCHANGED <<hResult, hnet, aID, aIdx>>
    /\ UNCHANGED <<fragVars, regVars, lockVars, peerVars, tickVars, sigVars>>

\* controller: the wait for the offer has returned; one iteration of the
\* loop of writeFragments for the answer
ControllerAnswer ==
    /\ wpc = "returned"
    /\ aIdx < NumChunks(AnswerMsg(result.msg), sSize)
    /\ hnet' = hnet \cup {[src |-> CtrlAddr, dst |-> AnswerDst(result),
                            data |-> Chunk(aID, AnswerMsg(result.msg), sSize, aIdx)]}
    /\ aIdx' = aIdx + 1
    /\ UNCHANGED <<hpc, hDeadline, hChunks, hTotal, hResult, aID>>
    /\ UNCHANGED <<fragVars, regVars, lockVars, peerVars, tickVars, sigVars>>

\* host: one loop iteration whose ReadFromUDP delivers datagram d
HostRead(d) ==
    /\ hpc = "reading"
    /\ d \in hnet
    /\ d.dst = HostAddr
    /\ now < hDeadline
    /\ LET r == Iteration(hChunks, hTotal, ANSWER, ReadFromUDP(d.data, sSize))
       IN  /\ hnet' = hnet \ {d}
           /\ hChunks' = r.ch
           /\ hTotal' = r.tot
           /\ hpc' = IF r.done THEN "returned" ELSE "reading"
           /\ hResult' = IF r.done THEN [msg |-> r.ret, addr |-> d.src, err |-> "none"]
                         ELSE hResult
           /\ hDeadline' = DeadlineAfterRead(hDeadline, now)
    /\ UNCHANGED <<aID, aIdx>>
    /\ UNCHANGED <<fragVars, regVars, lockVars, peerVars, tickVars, sigVars>>

\* host: ReadFromUDP fails at the read deadline
HostTimeout ==
    /\ hpc = "reading"
    /\ now >= hDeadline
    /\ hpc' = "failed"
    /\ hResult' = [msg |-> <<>>, addr |-> NoAddr, err |-> "timeout"]
    /\ UNCHANGED <<hDeadline, hChunks, hTotal, hnet, aID, aIdx>>
    /\ UNCHANGED <<fragVars, regVars, lockVars, peerVars, tickVars, sigVars>>

\* The controller waits for the offer, the host is about to send it; the two
\* random msgIDs can be equal
InitHand ==
    /\ sMsg = OFFER \o <<"a">>
    /\ sSize \in {MaxChunk, maxUDPPayloadSize}
    /\ sID \in MsgIDs
    /\ sIdx = 0
    /\ net = {}
    /\ noise = 0
    /\ wpc = "reading"
    /\ wPrefix = OFFER
    /\ deadline \in 1..MaxTime
    /\ now = 0
    /\ chunks = <<>>
    /\ totalChunks = <<>>
    /\ result = NoResult
    /\ fullMsg = <<>>
    /\ reordered = FALSE
    /\ lastIdx = -1
    /\ RegIdle
    /\ LockIdle
    /\ PeerIdle
    /\ hpc = "sending"
    /\ hDeadline = 0
    /\ hChunks = <<>>
    /\ hTotal = <<>>
    /\ hResult = NoResult
    /\ hnet = {}
    /\ aID \in MsgIDs \cup {SecondID}
    /\ aIdx = 0
    /\ TickIdle
    /\ SigIdle

NextHand ==
    \/ writeFragments
    \/ \E d \in net : ReadDatagram(d)
    \/ ReadTimeout
    \/ Tick
    \/ \E t \in 1..MaxTime : HostWait(t)
    \/ ControllerAnswer
    \/ \E d \in hnet : HostRead(d)
    \/ HostTimeout

SpecHand == InitHand /\ [][NextHand]_vars

\* both programs keep running and time passes: a blocked ReadFromUDP returns at
\* its deadline at the latest
SpecHandLive ==
    /\ SpecHand
    /\ WF_vars(writeFragments)
    /\ WF_vars(ReadTimeout)
    /\ WF_vars(Tick)
    /\ WF_vars(\E t \in 1..MaxTime : HostWait(t))
    /\ WF_vars(ControllerAnswer)
    /\ WF_vars(HostTimeout)

(***************************************************************************)
(* The /signal handler: each HTTP request runs in a goroutine of its own   *)
(* and all of them use the one socket conn                                 *)
(***************************************************************************)
\* 30*time.Second, in ticks of the clock
SigTimeout == 2

\* the offer request r carries
OfferOf(r) == <<r>>

\* conn.WriteToUDP([]byte("OFFER:"+req.offerB64), remoteAddr)
SignalSend(r) ==
    /\ sigpc[r] = "idle"
    /\ sigpc' = [sigpc EXCEPT ![r] = "sent"]
    /\ sigOut' = sigOut \cup {OFFER \o OfferOf(r)}
    /\ UNCHANGED <<sigIn, sigDeadline, sigOwn, sigRes, sigEnd, sigNow>>
    /\ UNCHANGED <<fragVars, regVars, lockVars, peerVars, handVars, tickVars>>

\* waitForPrefix: conn.SetReadDeadline(time.Now().Add(timeout))
SignalSetDeadline(r) ==
    /\ sigpc[r] = "sent"
    /\ sigpc' = [sigpc EXCEPT ![r] = "reading"]
    /\ sigDeadline' = SetReadDeadline(sigNow, SigTimeout)
    /\ sigOwn' = [sigOwn EXCEPT ![r] = SetReadDeadline(sigNow, SigTimeout)]
    /\ UNCHANGED <<sigOut, sigIn, sigRes, sigEnd, sigNow>>
    /\ UNCHANGED <<fragVars, regVars, lockVars, peerVars, handVars, tickVars>>

\* the peer reads an offer and replies "ANSWER:"+ansB64 to its sender
PeerAnswer(d) ==
    /\ d \in sigOut
    /\ sigOut' = sigOut \ {d}
    /\ sigIn' = IF HasPrefix(d, OFFER)
                THEN sigIn \cup {AnswerMsg(TrimPrefix(d, OFFER))}
                ELSE sigIn
    /\ UNCHANGED <<sigpc, sigDeadline, sigOwn, sigRes, sigEnd, sigNow>>
    /\ UNCHANGED <<fragVars, regVars, lockVars, peerVars, handVars, tickVars>>

\* waitForPrefix: one loop iteration of request r whose ReadFromUDP delivers d
SignalRead(r, d) ==
    /\ sigpc[r] = "reading"
    /\ d \in sigIn
    /\ sigNow < sigDeadline
    /\ sigIn' = sigIn \ {d}
    /\ IF HasPrefix(d, ANSWER)
       THEN /\ sigpc' = [sigpc EXCEPT ![r] = "returned"]
            /\ sigRes' = [sigRes EXCEPT ![r] = [msg |-> TrimPrefix(d, ANSWER),
                                                err |-> "none"]]
       ELSE UNCHANGED <<sigpc, sigRes>>
    /\ UNCHANGED <<sigOut, sigDeadline, sigOwn, sigEnd, sigNow>>
    /\ UNCHANGED <<fragVars, regVars, lockVars, peerVars, handVars, tickVars>>

\* waitForPrefix: ReadFromUDP of request r fails at the read deadline of conn
SignalTimeout(r) ==
    /\ sigpc[r] = "reading"
    /\ sigNow >= sigDeadline
    /\ sigpc' = [sigpc EXCEPT ![r] = "failed"]
    /\ sigRes' = [sigRes EXCEPT ![r] = [msg |-> <<>>, err |-> "timeout"]]
    /\ sigEnd' = [sigEnd EXCEPT ![r] = sigNow]
    /\ UNCHANGED <<sigOut, sigIn, sigDeadline, sigOwn, sigNow>>
    /\ UNCHANGED <<fragVars, regVars, lockVars, peerVars, handVars, tickVars>>

\* time passes
SignalTick ==
    /\ \/ sigNow < MaxTime
       \/ \E r \in Reqs : sigpc[r] = "reading" /\ sigNow < sigDeadline
    /\ sigNow' = sigNow + 1
    /\ UNCHANGED <<sigpc, sigOut, sigIn, sigDeadline, sigOwn, sigRes, sigEnd>>
    /\ UNCHANGED <<fragVars, regVars, lockVars, peerVars, handVars, tickVars>>

NextSignal ==
    \/ \E r \in Reqs : SignalSend(r)
    \/ \E r \in Reqs : SignalSetDeadline(r)
    \/ \E d \in sigOut : PeerAnswer(d)
    \/ \E r \in Reqs : \E d \in sigIn : SignalRead(r, d)
    \/ \E r \in Reqs : SignalTimeout(r)
    \/ SignalTick

SpecSignal == Init /\ [][NextSignal]_vars

(***************************************************************************)
(* C1: round trip. The chunks writeFragments produces for M, delivered     *)
(* exactly once each in any order to one wait, are concatenated in        *)
(* ascending chunkIndex order into exactly M; M is returned, with the      *)
(* awaited prefix stripped, when it starts with that prefix.               *)
(***************************************************************************)
AllDelivered == sIdx = NumChunks(sMsg, sSize) /\ net = {}

C1_RoundTrip ==
    /\ fullMsg # <<>> => fullMsg = sMsg
    /\ wpc = "returned" =>
          /\ HasPrefix(sMsg, wPrefix)
          /\ wPrefix \o result.msg = sMsg
          /\ result.addr = HostAddr
          /\ result.err = "none"
    /\ (AllDelivered /\ wpc # "failed") =>
          /\ fullMsg = sMsg
          /\ HasPrefix(sMsg, wPrefix) => wpc = "returned"

\* the 3000-character message in chunks of 1200, the chunk of index 1 arriving
\* last and after a chunk of higher index (order 2,0,1 or 0,2,1)
C1_Witness ==
    /\ wpc = "returned"
    /\ Len(sMsg) = LongLen
    /\ sSize = maxUDPPayloadSize
    /\ NumChunks(sMsg, sSize) = 3
    /\ reordered
    /\ lastIdx = 1
    /\ wPrefix \o result.msg = sMsg

(***************************************************************************)
(* C4: the wait fails with a timeout at the deadline fixed at the start of *)
(* the call: reading a datagram (unrelated or not) never moves the         *)
(* deadline, a failure is the timeout error and happens at or after the    *)
(* deadline, and a wait always ends (it never blocks forever).             *)
(***************************************************************************)
C4_Timeout ==
    /\ [](wpc = "failed" => (now >= deadline /\ result.err = "timeout"))
    /\ [][wpc = "reading" => deadline' = deadline]_vars
    /\ [][(wpc = "reading" /\ now >= deadline) => (chunks' = chunks /\ wpc' # "returned")]_vars
    /\ (wpc = "reading") ~> (wpc \in {"returned", "failed"})

\* a wait that timed out although unrelated datagrams were read during it
C4_Witness ==
    /\ wpc = "failed"
    /\ result.err = "timeout"
    /\ now = deadline
    /\ noise > 0
    /\ \A d \in net : d.src # OtherAddr

(***************************************************************************)
(* The registry under its goroutines. Every websocket connection has its   *)
(* handler (HandleWS, then the reader goroutine or handleInput) and the    *)
(* streamer goroutine dispatches frames. Each registry call is three       *)
(* steps: wait for Manager.mu, the critical section, the return.           *)
(***************************************************************************)
\* sync.RWMutex: Lock waits for the writer and the readers to leave
CanLock(m) == m.writer = None /\ m.readers = {}

\* sync.RWMutex: RLock waits for the writer to leave
CanRLock(m) == m.writer = None

\* a registry in which RemoveControl takes the read lock
LockKindReadRemove(op) ==
    IF op \in {"ForEachClient", "RemoveControl"} THEN "R" ELSE "W"

\* the lock each operation takes: mu.Lock() or mu.RLock()
LockKind(op) == IF op = "ForEachClient" THEN "R" ELSE "W"

\* a Lock released at once instead of at the return
LockedNotHeld(m, t) == m

\* m.mu.Lock(); defer m.mu.Unlock(): held to the return
Locked(m, t) == [m EXCEPT !.writer = t]

\* m.mu.RLock()
RLocked(m, t) == [m EXCEPT !.readers = @ \cup {t}]

\* the deferred m.mu.Unlock()
Unlocked(m, t) == [m EXCEPT !.writer = IF @ = t THEN None ELSE @]

\* an RUnlock deferred to the return of ForEachClient
RUnlockDeferred(m, t) == m

\* m.mu.RUnlock() after the ids are collected
RUnlocked(m, t) == [m EXCEPT !.readers = @ \ {t}]

\* after the return of the operation op
Released(m, t, op) ==
    IF LockKind(op) = "W" THEN Unlocked(m, t) ELSE [m EXCEPT !.readers = @ \ {t}]

\* the registry operation goroutine t is calling, "none" outside a call
OpOf(t) ==
    IF t = Disp
    THEN CASE pc[t] \in {"rlock", "snap"} -> "ForEachClient"
           [] pc[t] \in {"lock", "cs"} -> "NextTarget"
           [] OTHER -> None
    ELSE CASE pc[t] \in {"lock1", "cs1"} ->
                  IF req[t].role = "stream" THEN "AddStream" ELSE "SetControl"
           [] pc[t] \in {"lock2", "cs2"} ->
                  IF req[t].role = "stream" THEN "RemoveStream" ELSE "RemoveControl"
           [] OTHER -> None

\* the client id of the call of t
IdOf(t) == IF t = Disp THEN visited[Len(visited)] ELSE req[t].id

Waiting(t) == pc[t] \in {"lock", "lock1", "lock2", "rlock"}

\* inside the critical section of one of the five operations
InCS(t) == pc[t] \in {"cs", "cs1", "cs2"}

\* the orders in which a range over the map can yield the keys S
Orders(S) ==
    {s \in [1..Cardinality(S) -> S] : \A i, j \in DOMAIN s : i # j => s[i] # s[j]}

\* HandleWS: a request of the connection c arrives and calls the registry
Accept(c, role, id) ==
    /\ pc[c] = "idle"
    /\ req' = [req EXCEPT ![c] = [role |-> role, id |-> id]]
    /\ pc' = [pc EXCEPT ![c] = "lock1"]
    /\ closedBy' = [closedBy EXCEPT ![c] = {}]
    /\ UNCHANGED <<mu, ids, snap, visited, target, rounds>>
    /\ UNCHANGED <<fragVars, regVars, peerVars, handVars, tickVars, sigVars>>

\* m.mu.Lock() / m.mu.RLock() returns
Acquire(t) ==
    /\ Waiting(t)
    /\ IF LockKind(OpOf(t)) = "W"
       THEN CanLock(mu) /\ mu' = Locked(mu, t)
       ELSE CanRLock(mu) /\ mu' = RLocked(mu, t)
    /\ pc' = [pc EXCEPT ![t] = CASE pc[t] = "lock" -> "cs"
                                 [] pc[t] = "lock1" -> "cs1"
                                 [] pc[t] = "lock2" -> "cs2"
                                 [] pc[t] = "rlock" -> "snap"]
    /\ UNCHANGED <<req, ids, snap, visited, target, rounds, closedBy>>
    /\ UNCHANGED <<fragVars, regVars, peerVars, handVars, tickVars, sigVars>>

\* a handler that closes the control connection of the client at every
\* registration
StaleAny(m, role, id, conn) ==
    IF id \in DOMAIN m /\ m[id].Control # conn THEN m[id].Control ELSE Nil

\* old := mgr.SetControl(clientID, ws): the connection the handler closes
\* after the registration (if old != nil { old.Close() }), nil when none
Stale(m, role, id, conn) ==
    IF role = "stream" THEN Nil ELSE DoSetControl(m, id, conn).ret

\* AddStream or SetControl runs and returns; the handler of a control
\* connection closes the one it replaced; the handler then reads
Register(c) ==
    /\ pc[c] = "cs1"
    /\ LET old == Stale(clients, req[c].role, req[c].id, c)
       IN  closedBy' = IF old = Nil THEN closedBy
                       ELSE [closedBy EXCEPT ![old] = @ \cup {c}]
    /\ clients' = IF req[c].role = "stream"
                  THEN DoAddStream(clients, req[c].id, c)
                  ELSE DoSetControl(clients, req[c].id, c).m
    /\ mu' = Released(mu, c, OpOf(c))
    /\ pc' = [pc EXCEPT ![c] = "serving"]
    /\ UNCHANGED <<ret, hist, req, ids, snap, visited, target, rounds>>
    /\ UNCHANGED <<fragVars, peerVars, handVars, tickVars, sigVars>>

\* ReadMessage fails: the deferred RemoveStream / RemoveControl is called
ReadError(c) ==
    /\ pc[c] = "serving"
    /\ pc' = [pc EXCEPT ![c] = "lock2"]
    /\ UNCHANGED <<mu, req, ids, snap, visited, target, rounds, closedBy>>
    /\ UNCHANGED <<fragVars, regVars, peerVars, handVars, tickVars, sigVars>>

\* RemoveStream or RemoveControl runs and returns; the goroutine ends
Unregister(c) ==
    /\ pc[c] = "cs2"
    /\ clients' = IF req[c].role = "stream"
                  THEN DoRemoveStream(clients, req[c].id, c)
                  ELSE DoRemoveControl(clients, req[c].id, c)
    /\ mu' = Released(mu, c, OpOf(c))
    /\ pc' = [pc EXCEPT ![c] = "idle"]
    /\ req' = [req EXCEPT ![c] = NoReq]
    /\ closedBy' = [closedBy EXCEPT ![c] = @ \cup {c}]
    /\ UNCHANGED <<ret, hist, ids, snap, visited, target, rounds>>
    /\ UNCHANGED <<fragVars, peerVars, handVars, tickVars, sigVars>>

\* StartStreamer: the ticker fires, a frame is captured and ForEachClient called
TickerFires ==
    /\ pc[Disp] = "idle"
    /\ rounds < MaxRounds
    /\ rounds' = rounds + 1
    /\ pc' = [pc EXCEPT ![Disp] = "rlock"]
    /\ UNCHANGED <<mu, req, ids, snap, visited, target, closedBy>>
    /\ UNCHANGED <<fragVars, regVars, peerVars, handVars, tickVars, sigVars>>

\* a streamer whose goroutine ends at the first frame it cannot capture
AfterCaptureErrorFatal == "done"

\* continue: the goroutine is back at its select
AfterCaptureError == "idle"

\* StartStreamer: the ticker fires and capture.Frame returns an error
CaptureFails ==
    /\ pc[Disp] = "idle"
    /\ rounds < MaxRounds
    /\ rounds' = rounds + 1
    /\ pc' = [pc EXCEPT ![Disp] = "caperr"]
    /\ UNCHANGED <<mu, req, ids, snap, visited, target, closedBy>>
    /\ UNCHANGED <<fragVars, regVars, peerVars, handVars, tickVars, sigVars>>

\* if err != nil { log.Println("capture error:", err); continue }
SkipTick ==
    /\ pc[Disp] = "caperr"
    /\ pc' = [pc EXCEPT ![Disp] = AfterCaptureError]
    /\ UNCHANGED <<mu, req, ids, snap, visited, target, rounds, closedBy>>
    /\ UNCHANGED <<fragVars, regVars, peerVars, handVars, tickVars, sigVars>>

\* ForEachClient: the ids are collected, in the order the map yields them,
\* and the read lock is released
Snapshot ==
    /\ pc[Disp] = "snap"
    /\ \E order \in Orders(DOMAIN clients) :
           /\ ids' = order
           /\ snap' = order
    /\ visited' = <<>>
    /\ mu' = RUnlocked(mu, Disp)
    /\ pc' = [pc EXCEPT ![Disp] = "fn"]
    /\ UNCHANGED <<req, target, rounds, closedBy>>
    /\ UNCHANGED <<fragVars, regVars, peerVars, handVars, tickVars, sigVars>>

\* ForEachClient: fn(id) for the next id; fn calls NextTarget(id)
CallFn ==
    /\ pc[Disp] = "fn"
    /\ ids # <<>>
    /\ visited' = Append(visited, Head(ids))
    /\ ids' = Tail(ids)
    /\ pc' = [pc EXCEPT ![Disp] = "lock"]
    /\ UNCHANGED <<mu, req, snap, target, rounds, closedBy>>
    /\ UNCHANGED <<fragVars, regVars, peerVars, handVars, tickVars, sigVars>>

\* NextTarget runs and returns; fn returns on nil and writes otherwise
SelectTarget ==
    /\ pc[Disp] = "cs"
    /\ clients' = DoNextTarget(clients, IdOf(Disp)).m
    /\ target' = DoNextTarget(clients, IdOf(Disp)).ret
    /\ mu' = Released(mu, Disp, OpOf(Disp))
    /\ pc' = [pc EXCEPT ![Disp] = IF target' = Nil THEN "fn" ELSE "write"]
    /\ UNCHANGED <<ret, hist, req, ids, snap, visited, rounds, closedBy>>
    /\ UNCHANGED <<fragVars, peerVars, handVars, tickVars, sigVars>>

\* a streamer that takes a connection whose write failed out of the registry
OnWriteErrorRemove(m, id, conn) == DoRemoveStream(m, id, conn)

\* if err := conn.WriteMessage(...); err != nil { log.Println(...) }: the
\* registry after the error is handled
OnWriteError(m, id, conn) == m

\* conn.WriteMessage returns an error
WriteFails ==
    /\ pc[Disp] = "write"
    /\ pc' = [pc EXCEPT ![Disp] = "logerr"]
    /\ UNCHANGED <<mu, req, ids, snap, visited, target, rounds, closedBy>>
    /\ UNCHANGED <<fragVars, regVars, peerVars, handVars, tickVars, sigVars>>

\* the error is logged and fn returns
LogError ==
    /\ pc[Disp] = "logerr"
    /\ clients' = OnWriteError(clients, IdOf(Disp), target)
    /\ target' = Nil
    /\ pc' = [pc EXCEPT ![Disp] = "fn"]
    /\ UNCHANGED <<ret, hist, mu, req, ids, snap, visited, rounds, closedBy>>
    /\ UNCHANGED <<fragVars, peerVars, handVars, tickVars, sigVars>>

\* conn.WriteMessage returns without an error and fn returns
WriteDone ==
    /\ pc[Disp] = "write"
    /\ target' = Nil
    /\ pc' = [pc EXCEPT ![Disp] = "fn"]
    /\ UNCHANGED <<mu, req, ids, snap, visited, rounds, closedBy>>
    /\ UNCHANGED <<fragVars, regVars, peerVars, handVars, tickVars, sigVars>>

\* ForEachClient returns and the streamer waits for the next tick
EndRound ==
    /\ pc[Disp] = "fn"
    /\ ids = <<>>
    /\ snap' = <<>>
    /\ visited' = <<>>
    /\ pc' = [pc EXCEPT ![Disp] = "idle"]
    /\ UNCHANGED <<mu, req, ids, target, rounds, closedBy>>
    /\ UNCHANGED <<fragVars, regVars, peerVars, handVars, tickVars, sigVars>>

\* main: the signal arrives and close(stopStream) is executed
CloseStop ==
    /\ pc[Main] = "idle"
    /\ pc' = [pc EXCEPT ![Main] = "closed"]
    /\ UNCHANGED <<mu, req, ids, snap, visited, target, rounds, closedBy>>
    /\ UNCHANGED <<fragVars, regVars, peerVars, handVars, tickVars, sigVars>>

\* StartStreamer: the select takes case <-stop and the goroutine returns. A
\* select with several ready cases takes any of them, so TickerFires stays
\* enabled beside this step
StopObserved ==
    /\ pc[Disp] = "idle"
    /\ pc[Main] = "closed"
    /\ pc' = [pc EXCEPT ![Disp] = "done"]
    /\ UNCHANGED <<mu, req, ids, snap, visited, target, rounds, closedBy>>
    /\ UNCHANGED <<fragVars, regVars, peerVars, handVars, tickVars, sigVars>>

Roles == {"control", "stream"}

NextLock ==
    \/ \E c \in Conns, role \in Roles, id \in ClientIDs : Accept(c, role, id)
    \/ \E t \in Threads : Acquire(t)
    \/ \E c \in Conns : Register(c)
    \/ \E c \in Conns : ReadError(c)
    \/ \E c \in Conns : Unregister(c)
    \/ TickerFires
    \/ CaptureFails
    \/ SkipTick
    \/ Snapshot
    \/ CallFn
    \/ SelectTarget
    \/ WriteDone
    \/ WriteFails
    \/ LogError
    \/ EndRound

SpecLock == Init /\ [][NextLock]_vars

\* a fn that writes the frame to the control connection as well as to the
\* stream NextTarget returned
FnWritesBoth(m, id, conn) ==
    IF conn = Nil THEN <<>>
    ELSE IF id \in DOMAIN m /\ m[id].Control \notin {Nil, conn}
         THEN <<conn, m[id].Control>>
         ELSE <<conn>>

\* fn: the connections the frame of client id is written to once NextTarget
\* has returned conn: if conn == nil { return }; conn.WriteMessage(...)
FnWrites(m, id, conn) == IF conn = Nil THEN <<>> ELSE <<conn>>

\* Snapshot, where the history of the tick starts
SnapshotTracked ==
    /\ pc[Disp] = "snap"
    /\ \E order \in Orders(DOMAIN clients) :
           /\ ids' = order
           /\ snap' = order
    /\ visited' = <<>>
    /\ mu' = RUnlocked(mu, Disp)
    /\ pc' = [pc EXCEPT ![Disp] = "fn"]
    /\ called' = <<>>
    /\ written' = <<>>
    /\ cursor0' = [id \in DOMAIN clients |-> clients[id].streamIdx]
    /\ UNCHANGED <<req, target, rounds, closedBy>>
    /\ UNCHANGED <<fragVars, regVars, peerVars, handVars, sigVars>>

\* SelectTarget, recording the call and the writes fn goes on to make
SelectTargetTracked ==
    /\ pc[Disp] = "cs"
    /\ clients' = DoNextTarget(clients, IdOf(Disp)).m
    /\ target' = DoNextTarget(clients, IdOf(Disp)).ret
    /\ mu' = Released(mu, Disp, OpOf(Disp))
    /\ pc' = [pc EXCEPT ![Disp] = IF target' = Nil THEN "fn" ELSE "write"]
    /\ called' = Append(called, IdOf(Disp))
    /\ written' = written \o [i \in DOMAIN FnWrites(clients, IdOf(Disp), target') |->
                               [id |-> IdOf(Disp),
                                conn |-> FnWrites(clients, IdOf(Disp), target')[i]]]
    /\ UNCHANGED <<ret, hist, req, ids, snap, visited, rounds, closedBy, cursor0>>
    /\ UNCHANGED <<fragVars, peerVars, handVars, sigVars>>

\* The streamer and the websocket handlers, with the history of each tick
NextTick ==
    \/ \E c \in Conns, role \in Roles, id \in ClientIDs : Accept(c, role, id)
    \/ \E t \in Threads : Acquire(t)
    \/ \E c \in Conns : Register(c)
    \/ \E c \in Conns : ReadError(c)
    \/ \E c \in Conns : Unregister(c)
    \/ TickerFires
    \/ SnapshotTracked
    \/ CallFn
    \/ SelectTargetTracked
    \/ WriteDone
    \/ EndRound

SpecTick == Init /\ [][NextTick]_vars

\* the role and clientId parameters a websocket request can carry; "" is a
\* parameter that is missing
QueryRoles == {"stream", "control", "viewer", ""}
QueryClientIDs == {"", "A"}

\* a handler that takes the clientId as it comes
ClientIDRaw(q) == q

\* clientID := r.URL.Query().Get("clientId"); if clientID == "" { "default" }
ClientIDOf(q) == IF q = "" THEN "default" ELSE q

\* HandleWS: the request is upgraded; role and clientID are read from its URL
AcceptWS(c, role, q) == Accept(c, role, ClientIDOf(q))

\* The handlers of two connections whose requests carry any role and clientId
NextAccept ==
    \/ \E c \in Conns, role \in QueryRoles, q \in QueryClientIDs : AcceptWS(c, role, q)
    \/ \E c \in Conns : Acquire(c)
    \/ \E c \in Conns : Register(c)
    \/ \E c \in Conns : ReadError(c)
    \/ \E c \in Conns : Unregister(c)

SpecAccept == Init /\ [][NextAccept]_vars

\* The same goroutines with the shutdown of main
NextStop ==
    \/ NextLock
    \/ CloseStop
    \/ StopObserved

SpecStop == Init /\ [][NextStop]_vars

\* the steps the program takes by itself; the arrival of a request, the end
\* of a connection and the signal are up to its environment
ProgramStep ==
    \/ \E t \in Threads : Acquire(t)
    \/ \E c \in Conns : Register(c)
    \/ \E c \in Conns : Unregister(c)
    \/ TickerFires
    \/ CaptureFails
    \/ SkipTick
    \/ Snapshot
    \/ CallFn
    \/ SelectTarget
    \/ WriteDone
    \/ WriteFails
    \/ LogError
    \/ EndRound
    \/ StopObserved

(***************************************************************************)
(* The frame loop of runPeer: chunked frames on the frames data channel    *)
(***************************************************************************)
\* const chunkSize = 12 * 1024
chunkSize == 12 * 1024

\* the encoded frames captureAndEncode can return with ok: never empty here,
\* the characters vary with their position
Frames == {[k \in 1..n |-> Digits[k]] : n \in 1..MaxFrameLen}

\* nChunks := (len(b64) + chunkSize - 1) / chunkSize
nChunks(b, size) == (Len(b) + size - 1) \div size

\* the frameMeta message (the mouse position is left out)
FrameMeta(id, n) == [Type |-> "frameMeta", ID |-> id, Chunks |-> n]

\* the frameChunk message of loop iteration i
FrameChunk(id, b, size, i) ==
    LET start == i * size
        end0 == start + size
        end == IF end0 > Len(b) THEN Len(b) ELSE end0
    IN  [Type |-> "frameChunk", ID |-> id, Index |-> i, Data |-> Slice(b, start, end)]

\* a loop that keeps the id for the next frame
NextFrameIDSame(id) == id

\* frameID++; if frameID == int(^uint(0)>>1) { frameID = 0 }
NextFrameID(id) == IF IntInc(id) = MaxInt THEN 0 ELSE IntInc(id)

\* a tick without a frame: framesDC is nil, or captureAndEncode returns
\* !ok or an empty string; continue
SkipFrame ==
    /\ ppc = "tick"
    /\ ticks < MaxFrames
    /\ ticks' = ticks + 1
    /\ UNCHANGED <<frameID, b64, cSize, chunkI, ppc, sent>>
    /\ UNCHANGED <<fragVars, regVars, lockVars, handVars, tickVars, sigVars>>

\* a tick whose captureAndEncode returns the frame b
CaptureFrame(b) ==
    /\ ppc = "tick"
    /\ ticks < MaxFrames
    /\ ticks' = ticks + 1
    /\ b64' = b
    /\ ppc' = "meta"
    /\ UNCHANGED <<frameID, cSize, chunkI, sent>>
    /\ UNCHANGED <<fragVars, regVars, lockVars, handVars, tickVars, sigVars>>

\* framesDC.SendText(mustJSON(meta)) returns nil; the chunk loop starts
SendMeta ==
    /\ ppc = "meta"
    /\ sent' = Append(sent, [msg |-> FrameMeta(frameID, nChunks(b64, cSize)), err |-> FALSE])
    /\ chunkI' = 0
    /\ ppc' = "chunks"
    /\ UNCHANGED <<frameID, b64, cSize, ticks>>
    /\ UNCHANGED <<fragVars, regVars, lockVars, handVars, tickVars, sigVars>>

\* framesDC.SendText(mustJSON(meta)) returns an error; continue
MetaFails ==
    /\ ppc = "meta"
    /\ sent' = Append(sent, [msg |-> FrameMeta(frameID, nChunks(b64, cSize)), err |-> TRUE])
    /\ ppc' = "tick"
    /\ UNCHANGED <<frameID, b64, cSize, chunkI, ticks>>
    /\ UNCHANGED <<fragVars, regVars, lockVars, handVars, tickVars, sigVars>>

\* one iteration of the chunk loop: _ = framesDC.SendText(mustJSON(chunk));
\* what the call returns is dropped
SendChunk ==
    /\ ppc = "chunks"
    /\ chunkI < nChunks(b64, cSize)
    /\ sent' = Append(sent, [msg |-> FrameChunk(frameID, b64, cSize, chunkI)])
    /\ chunkI' = chunkI + 1
    /\ UNCHANGED <<frameID, b64, cSize, ppc, ticks>>
    /\ UNCHANGED <<fragVars, regVars, lockVars, handVars, tickVars, sigVars>>

\* the chunk loop is over: frameID++ with its reset
EndFrame ==
    /\ ppc = "chunks"
    /\ chunkI >= nChunks(b64, cSize)
    /\ frameID' = NextFrameID(frameID)
    /\ ppc' = "tick"
    /\ UNCHANGED <<b64, cSize, chunkI, sent, ticks>>
    /\ UNCHANGED <<fragVars, regVars, lockVars, handVars, tickVars, sigVars>>

\* The frame loop after any number of frames: frameID is 0 at the start and
\* within MaxWrap frames of its reset later on
InitPeer ==
    /\ FragIdle
    /\ RegIdle
    /\ LockIdle
    /\ HandIdle
    /\ TickIdle
    /\ SigIdle
    /\ frameID \in {0} \cup {MaxInt - k : k \in 1..MaxWrap}
    /\ b64 = <<>>
    /\ cSize \in (1..MaxChunk) \cup {chunkSize}
    /\ chunkI = 0
    /\ ppc = "tick"
    /\ sent = <<>>
    /\ ticks = 0

NextPeer ==
    \/ SkipFrame
    \/ \E b \in Frames : CaptureFrame(b)
    \/ SendMeta
    \/ MetaFails
    \/ SendChunk
    \/ EndFrame

SpecPeer == InitPeer /\ [][NextPeer]_vars

Range(s) == {s[i] : i \in DOMAIN s}

(***************************************************************************)
(* C7: ForEachClient collects the ids known at one moment while it holds   *)
(* the registry lock, releases the lock, and calls fn once for each id     *)
(* collected, in order, holding no registry lock: while fn waits for       *)
(* NextTarget or is in its write the streamer holds neither side of the    *)
(* mutex, so the Lock of NextTarget is granted as soon as no handler is    *)
(* inside a critical section, and a handler waiting in SetControl,         *)
(* AddStream, RemoveStream or RemoveControl is granted the lock whenever   *)
(* no other call is inside its critical section.                           *)
(***************************************************************************)
C7_ForEachClient ==
    /\ [](/\ pc[Disp] = "snap" => Disp \in mu.readers /\ mu.writer = None
          /\ pc[Disp] \in {"fn", "lock", "write", "logerr"} =>
                 /\ Disp \notin mu.readers
                 /\ mu.writer # Disp
                 /\ \A c \in Conns :
                        Waiting(c) /\ (\A o \in Conns : ~InCS(o)) => ENABLED Acquire(c)
          /\ pc[Disp] = "lock" =>
                 (ENABLED Acquire(Disp)) \/ (\E c \in Conns : InCS(c))
          /\ pc[Disp] \in {"fn", "lock", "cs", "write", "logerr"} =>
                 /\ visited \o ids = snap
                 /\ \A i, j \in DOMAIN snap : i # j => snap[i] # snap[j])
    /\ [][pc[Disp] = "snap" /\ pc'[Disp] # "snap" =>
              /\ Range(snap') = DOMAIN clients
              /\ Disp \notin mu'.readers
              /\ visited' = <<>>]_vars
    /\ [][pc[Disp] = "fn" /\ pc'[Disp] = "idle" => visited = snap]_vars

\* a handler is inside a critical section while fn is in its write, in a
\* round over two clients
C7_Witness ==
    /\ pc[Disp] = "write"
    /\ Len(snap) = 2
    /\ \E c \in Conns : InCS(c)

(***************************************************************************)
(* C8: at most one goroutine at a time is inside the critical section of   *)
(* SetControl, AddStream, RemoveStream, RemoveControl or NextTarget, and   *)
(* none is inside one while ForEachClient collects the ids.                *)
(***************************************************************************)
C8_MutualExclusion ==
    /\ Cardinality({t \in Threads : InCS(t)}) <= 1
    /\ pc[Disp] = "snap" => \A t \in Threads : ~InCS(t)

\* one handler inside, the other handler and NextTarget of the streamer waiting
C8_Witness ==
    \E c \in Conns :
        /\ InCS(c)
        /\ \A o \in Conns \ {c} : Waiting(o)
        /\ pc[Disp] = "lock"

\* the call of t is for another client than a call that is inside its
\* critical section
BehindOtherClient(t) ==
    /\ Waiting(t)
    /\ OpOf(t) # "ForEachClient"
    /\ \E o \in Threads \ {t} : InCS(o) /\ IdOf(o) # IdOf(t)

(***************************************************************************)
(* C9 as stated: a call for a client can proceed while a call for another  *)
(* client is inside its critical section.                                  *)
(***************************************************************************)
C9_NoBlocking ==
    \A t \in Threads : BehindOtherClient(t) => ENABLED Acquire(t)

(***************************************************************************)
(* C9 amended: the calls of all clients are serialised by the one mutex    *)
(* of the registry. A call for a client waits while a call for another     *)
(* client is inside its critical section, and it proceeds once no call is  *)
(* inside one and no ForEachClient is collecting ids.                      *)
(***************************************************************************)
C9_Serialised ==
    \A t \in Threads :
        /\ BehindOtherClient(t) => ~ENABLED Acquire(t)
        /\ (/\ Waiting(t)
            /\ OpOf(t) # "ForEachClient"
            /\ \A o \in Threads : ~InCS(o)
            /\ pc[Disp] # "snap") => ENABLED Acquire(t)

\* AddStream for B waits while SetControl for A is inside
C9_Witness ==
    /\ pc["c1"] = "cs1" /\ req["c1"] = [role |-> "control", id |-> "A"]
    /\ pc["c2"] = "lock1" /\ req["c2"] = [role |-> "stream", id |-> "B"]

(***************************************************************************)
(* C11: idempotent discard. Once a wait has returned the message sID from  *)
(* its fragments, no reassembly entry for sID exists again, whatever       *)
(* duplicate of its fragments is received afterwards.                      *)
(***************************************************************************)
C11_IdempotentDiscard == lastIdx >= 0 => sID \notin DOMAIN chunks

\* the least k with k * b >= a
CeilDiv(a, b) == CHOOSE k \in 0..a : k * b >= a /\ (k = 0 \/ (k - 1) * b < a)

\* d is the chunk of index i of a message of total chunks, with some payload
IsChunk(d, total, i) ==
    /\ d.src = HostAddr
    /\ HasPrefix(d.data, Header(sID, total, i))
    /\ Len(d.data) > Len(Header(sID, total, i))

(***************************************************************************)
(* C12: writeFragments sends ceil(len(message) / size) chunks and          *)
(* announces that number in each: the loop ends exactly when that many     *)
(* chunks are sent, and every chunk sent carries that total, an index      *)
(* below it and a payload that is not empty (no empty chunk after a        *)
(* message whose length is a multiple of the size).                        *)
(***************************************************************************)
C12_ChunkCount ==
    LET total == CeilDiv(Len(sMsg), sSize)
    IN  /\ sIdx <= total
        /\ (ENABLED writeFragments) <=> sIdx < total
        /\ \A d \in net : \E i \in 0..(sIdx - 1) : IsChunk(d, total, i)

\* a message of twice the chunk size, sent in two chunks that are in flight
C12_Witness ==
    /\ sSize > 1
    /\ Len(sMsg) = 2 * sSize
    /\ sIdx = 2
    /\ ~ENABLED writeFragments
    /\ Cardinality(net) = 2

(***************************************************************************)
(* C13: a call of writeFragments, once its loop has ended, has sent at     *)
(* least one chunk and announced a total of at least 1, whatever the       *)
(* length of the message (0 included).                                     *)
(***************************************************************************)
C13_AtLeastOne ==
    (~ENABLED writeFragments) => (sIdx >= 1 /\ NumChunks(sMsg, sSize) >= 1)

\* a decimal number, with or without a sign
Numeric(s) ==
    LET body == IF Len(s) > 0 /\ s[1] \in {"+", "-"} THEN SubSeq(s, 2, Len(s)) ELSE s
    IN  Len(body) > 0 /\ \A k \in 1..Len(body) : body[k] \in Range(Digits)

\* a FRAG: datagram with fewer than five fields or a total or index that is
\* no number
IsMalformed(msg) ==
    /\ HasPrefix(msg, FRAG)
    /\ LET parts == SplitN(msg, COLON, 5)
       IN  \/ Len(parts) < 5
           \/ ~Numeric(parts[3])
           \/ ~Numeric(parts[4])

(***************************************************************************)
(* C14: a malformed fragment is dropped. Reading one leaves the tables of  *)
(* the wait as they were (no entry made, none changed), does not end the   *)
(* wait and sets no result; and a message all of whose fragments are read  *)
(* in a wait for its prefix that has not timed out is returned, whatever   *)
(* malformed fragments were read among them.                               *)
(***************************************************************************)
C14_MalformedDropped ==
    /\ [][\A d \in net :
            (wpc = "reading" /\ net' = net \ {d} /\ IsMalformed(d.data)) =>
                /\ chunks' = chunks
                /\ totalChunks' = totalChunks
                /\ wpc' = "reading"
                /\ result' = result]_vars
    /\ []((AllDelivered /\ wpc # "failed" /\ HasPrefix(sMsg, wPrefix)) =>
              (wpc = "returned" /\ wPrefix \o result.msg = sMsg))

\* a message returned by a wait that read a malformed fragment
C14_Witness ==
    /\ wpc = "returned"
    /\ noise > 0
    /\ \A d \in net : d.src # OtherAddr
    /\ wPrefix \o result.msg = sMsg

\* chunk i of the message was sent and is neither in flight nor held by the
\* receiver, and the wait has not returned
Lost(i) ==
    /\ i < sIdx
    /\ wpc # "returned"
    /\ \A d \in net : FragIndexOf(d.data, sID) # i
    /\ sID \in DOMAIN chunks => i \notin DOMAIN chunks[sID]

\* a step after which chunk i is lost as before: it is not sent again, not
\* received, and the wait does not return
StaysLost(i) ==
    /\ sIdx' >= sIdx
    /\ wpc' # "returned"
    /\ \A d \in net' \ net : FragIndexOf(d.data, sID) # i
    /\ sID \in DOMAIN chunks' => i \notin DOMAIN chunks'[sID]

SomeLost == \E i \in 0..(sIdx - 1) : Lost(i)

(***************************************************************************)
(* C15: no retry, no acknowledgment. A chunk that is lost stays lost and   *)
(* the wait does not return (no step brings the chunk back or returns the  *)
(* message); while a chunk is lost the reassembly of the message holds     *)
(* fewer chunks than announced and no message was put together; and a wait *)
(* that is reading with a chunk lost ends with the timeout failure.        *)
(***************************************************************************)
C15_NoRetry ==
    /\ [][\A i \in 0..(sIdx - 1) : Lost(i) => StaysLost(i)]_vars
    /\ [](SomeLost =>
             /\ fullMsg = <<>>
             /\ sID \in DOMAIN chunks =>
                    Cardinality(DOMAIN chunks[sID]) < totalChunks[sID])
    /\ ((SomeLost /\ wpc = "reading") ~> (wpc = "failed" /\ result.err = "timeout"))

\* one chunk of a message of three or more was lost, the others were read and
\* the wait failed
C15_Witness ==
    /\ wpc = "failed"
    /\ sIdx = NumChunks(sMsg, sSize)
    /\ sIdx >= 3
    /\ net = {}
    /\ sID \in DOMAIN chunks
    /\ Cardinality(DOMAIN chunks[sID]) = sIdx - 1
    /\ Lost(1)

(***************************************************************************)
(* C16: a failed write is only logged. The step that handles the error of  *)
(* a write leaves the registry, the snapshot of the tick and the ids still *)
(* to serve as they were and goes on with the loop over the snapshot; a    *)
(* write, failed or not, removes nothing from the registry; a client for   *)
(* which NextTarget yields nil is skipped the same way; while ids remain   *)
(* the next fn call can be made, and the tick ends only when fn was called *)
(* for every id of its snapshot.                                           *)
(***************************************************************************)
C16_WriteFailureLogged ==
    /\ [][pc[Disp] = "logerr" /\ pc'[Disp] # "logerr" =>
              /\ clients' = clients
              /\ pc'[Disp] = "fn"
              /\ <<ids, snap, visited>>' = <<ids, snap, visited>>]_vars
    /\ [][pc[Disp] = "write" /\ pc'[Disp] # "write" =>
              /\ clients' = clients
              /\ pc'[Disp] \in {"fn", "logerr"}
              /\ <<ids, snap, visited>>' = <<ids, snap, visited>>]_vars
    /\ [][pc[Disp] = "cs" /\ pc'[Disp] # "cs" /\ target' = Nil =>
              /\ pc'[Disp] = "fn"
              /\ DOMAIN clients' = DOMAIN clients
              /\ <<ids, snap, visited>>' = <<ids, snap, visited>>]_vars
    /\ [][pc[Disp] \in {"fn", "logerr"} /\ pc'[Disp] = "idle" =>
              pc[Disp] = "fn" /\ ids = <<>> /\ visited = snap]_vars
    /\ [](pc[Disp] = "fn" /\ ids # <<>> => ENABLED CallFn)

\* the write to the first client of a snapshot of two has failed and the
\* second client is still to be served
C16_Witness ==
    /\ pc[Disp] = "logerr"
    /\ Len(snap) = 2
    /\ Len(visited) = 1
    /\ Len(ids) = 1
    /\ target # Nil

\* the streamer starts a tick: it captures a frame and dispatches it
TickStarts == pc[Disp] = "idle" /\ pc'[Disp] = "rlock"

(***************************************************************************)
(* C17 (safety part): once the stop channel is closed the streamer starts  *)
(* no further tick, so nothing is captured or written in a later tick.     *)
(***************************************************************************)
C17_NoLaterTick == [][pc[Main] = "closed" => ~TickStarts]_vars

(***************************************************************************)
(* C18: the streamer and the readers of all connections observe the one    *)
(* shutdown signal and terminate after it. In finite-run form: when the    *)
(* signal has been raised and the program has no step left to take, the    *)
(* streamer has returned and no reader is running.                         *)
(***************************************************************************)
C18_SharedShutdown ==
    (pc[Main] = "closed" /\ ~ENABLED ProgramStep) =>
        /\ pc[Disp] = "done"
        /\ \A c \in Conns : pc[c] = "idle"

\* conn is in the stream sequence of a client or is the control of a client
Registered(m, conn) ==
    \E id \in DOMAIN m : conn \in Range(m[id].Streams) \/ m[id].Control = conn

(***************************************************************************)
(* C19: a read error deregisters the connection before its reader ends.    *)
(* The step that ends the reader of c (the deferred RemoveStream or        *)
(* RemoveControl) leaves c in no stream sequence and as no control; a      *)
(* connection whose reader is not running is not registered; and the       *)
(* connection NextTarget returns to the streamer is never one whose reader *)
(* has ended.                                                              *)
(***************************************************************************)
C19_Deregistered ==
    /\ [][\A c \in Conns :
            (pc[c] = "cs2" /\ pc'[c] = "idle") => ~Registered(clients', c)]_vars
    /\ [](\A c \in Conns : pc[c] = "idle" => ~Registered(clients, c))
    /\ [][(pc[Disp] = "cs" /\ pc'[Disp] # "cs" /\ target' # Nil) =>
              pc[target'] # "idle"]_vars

\* the reader of a stream connection that had been served has ended: the
\* stream sequence of its client is empty again and NextTarget for it has
\* returned nil in the current tick
C19_Witness ==
    /\ \A c \in Conns : pc[c] = "idle"
    /\ pc[Disp] = "fn"
    /\ target = Nil
    /\ Len(visited) > 0
    /\ LET id == visited[Len(visited)]
       IN  /\ id \in DOMAIN clients
           /\ clients[id].Streams = <<>>
           /\ clients[id].streamIdx > 0

(***************************************************************************)
(* C20: overflow of the cursor is harmless. Whatever the cursor, a         *)
(* NextTarget for a client with stream connections returns one of them.    *)
(***************************************************************************)
C20_OverflowHarmless ==
    (/\ ret.op = "NextTarget"
     /\ ret.id \in DOMAIN clients
     /\ Len(clients[ret.id].Streams) > 0) =>
        ret.val \in Range(clients[ret.id].Streams)

\* the session of id in m, the empty one when there is none yet
SessionOf(m, id) == IF id \in DOMAIN m THEN m[id] ELSE NewClient

(***************************************************************************)
(* C21: a request without clientId is handled under the id "default", one  *)
(* with a clientId under that id; the registration that follows appends    *)
(* the connection to the streams of that client when the role is "stream"  *)
(* (the control untouched) and makes it the control of that client for any *)
(* other or missing role (the streams untouched); no session is ever kept  *)
(* under the empty id.                                                     *)
(***************************************************************************)
C21_RoleAndDefaultId ==
    /\ [][\A c \in Conns, role \in QueryRoles, q \in QueryClientIDs :
            AcceptWS(c, role, q) =>
                /\ req'[c].role = role
                /\ req'[c].id = (IF q = "" THEN "default" ELSE q)]_vars
    /\ [][\A c \in Conns :
            (pc[c] = "cs1" /\ pc'[c] = "serving") =>
                LET id == req[c].id
                    old == SessionOf(clients, id)
                IN  /\ id \in DOMAIN clients'
                    /\ \A o \in DOMAIN clients \ {id} : clients'[o] = clients[o]
                    /\ DOMAIN clients' = DOMAIN clients \cup {id}
                    /\ IF req[c].role = "stream"
                       THEN /\ clients'[id].Streams = Append(old.Streams, c)
                            /\ clients'[id].Control = old.Control
                       ELSE /\ clients'[id].Control = c
                            /\ clients'[id].Streams = old.Streams]_vars
    /\ []("" \notin DOMAIN clients)

\* a connection without role and clientId is the control of "default", and a
\* stream connection without clientId is a stream of "default"
C21_Witness ==
    /\ "default" \in DOMAIN clients
    /\ \E c \in Conns :
           /\ req[c] = [role |-> "", id |-> "default"]
           /\ pc[c] = "serving"
           /\ clients["default"].Control = c
    /\ \E c \in Conns :
           /\ req[c] = [role |-> "stream", id |-> "default"]
           /\ pc[c] = "serving"
           /\ clients["default"].Streams = <<c>>

(***************************************************************************)
(* C22: an entry leaves the reassembly table the instant its chunks are    *)
(* all there, whether or not the message starts with the awaited prefix:   *)
(* while the wait goes on the table holds no entry with as many chunks as  *)
(* announced.                                                              *)
(***************************************************************************)
C22_CompletedRemoved ==
    wpc = "reading" =>
        \A id \in DOMAIN chunks : Cardinality(DOMAIN chunks[id]) # totalChunks[id]

\* the table holds all the chunks announced for id
Held(ch, tot, id) ==
    id \in DOMAIN ch /\ Cardinality(DOMAIN ch[id]) = tot[id]

\* reading datagram d is the step that brings the last missing fragment of the
\* second message
CompletesSecond(d) ==
    \E i \in 0..1 :
        /\ d.data = Chunk(SecondID, SecondMsg(wPrefix), Len(wPrefix), i)
        /\ SecondID \in DOMAIN chunks
        /\ DOMAIN chunks[SecondID] = {1 - i}

(***************************************************************************)
(* C23: a fragmented message that completes without the awaited prefix is  *)
(* silently discarded. The read that completes it neither ends the wait    *)
(* nor sets a result, and the wait fails only by its timeout; a later      *)
(* message with the prefix is returned with the prefix stripped, when it   *)
(* arrives as one datagram and when its last fragment arrives.             *)
(***************************************************************************)
C23_MismatchDiscarded ==
    /\ [][(wpc = "reading" /\ ~Held(chunks, totalChunks, sID)
              /\ Held(chunks', totalChunks', sID)) =>
              (wpc' = "reading" /\ result' = result)]_vars
    /\ [](wpc = "failed" => (result.err = "timeout" /\ now >= deadline))
    /\ [][\A d \in net :
            (/\ wpc = "reading"
             /\ net' = net \ {d}
             /\ d.data = SecondMsg(wPrefix) \/ CompletesSecond(d)) =>
                /\ wpc' = "returned"
                /\ result'.msg = <<"b">>
                /\ result'.err = "none"]_vars

\* the first message was completed under another prefix and stayed; the
\* second message, read from its fragments afterwards, is returned
C23_Witness ==
    /\ wpc = "returned"
    /\ Held(chunks, totalChunks, sID)
    /\ ~HasPrefix(sMsg, wPrefix)
    /\ fullMsg = SecondMsg(wPrefix)
    /\ result.msg = <<"b">>

\* the fields of a fragment datagram: FRAG, id, total, index, data
Fields(d) == SplitN(d.data, COLON, 5)
IdField(d) == Fields(d)[2]
TotalField(d) == DigitsVal(Fields(d)[3])
IndexField(d) == DigitsVal(Fields(d)[4])
DataField(d) == Fields(d)[5]

\* the datagram is a well-formed fragment
WellFormed(d) ==
    /\ HasPrefix(d.data, FRAG)
    /\ Len(Fields(d)) = 5
    /\ Numeric(Fields(d)[3])
    /\ Numeric(Fields(d)[4])

(***************************************************************************)
(* C24: the datagrams of one writeFragments call. Before anything is read, *)
(* every datagram sent is a fragment with the id of the call, all announce *)
(* the same total, the indexes sent so far are exactly 0..sIdx-1, each in  *)
(* one datagram and below the total, and the data of the datagram of index *)
(* i is the part of the message that starts at i * size, of length 1 to    *)
(* size; each step of the call sends the index that follows the last one.  *)
(***************************************************************************)
C24_FragmentInvariants ==
    /\ [](wpc = "idle" =>
            /\ \A d \in net :
                   /\ WellFormed(d)
                   /\ IdField(d) = sID
                   /\ IndexField(d) < TotalField(d)
                   /\ Len(DataField(d)) \in 1..sSize
                   /\ DataField(d) = SubSeq(sMsg, IndexField(d) * sSize + 1,
                                            IndexField(d) * sSize + Len(DataField(d)))
                   /\ \/ Len(DataField(d)) = sSize
                      \/ IndexField(d) * sSize + Len(DataField(d)) = Len(sMsg)
            /\ \A d, e \in net : TotalField(d) = TotalField(e)
            /\ \A d, e \in net : IndexField(d) = IndexField(e) => d = e
            /\ {IndexField(d) : d \in net} = 0..(sIdx - 1)
            /\ (~ENABLED writeFragments) =>
                   \A d \in net : TotalField(d) = sIdx)
    /\ [][(wpc = "idle" /\ sIdx' # sIdx) =>
              /\ sIdx' = sIdx + 1
              /\ \E d \in net' : net' = net \cup {d} /\ d \notin net
                                  /\ IndexField(d) = sIdx]_vars

\* the three datagrams of the long message in chunks of the program's size
C24_Witness ==
    /\ wpc = "idle"
    /\ sSize = maxUDPPayloadSize
    /\ sMsg = LongMessage
    /\ sIdx = 3
    /\ Cardinality(net) = 3
    /\ ~ENABLED writeFragments

(***************************************************************************)
(* C25: the selection stays inside the current stream sequence. In any     *)
(* interleaving of AddStream, RemoveStream and NextTarget (the cursor far  *)
(* from overflow), a NextTarget for a client with n >= 1 streams returns   *)
(* the connection at a position 0..n-1 of the sequence as it is at that    *)
(* moment, which is a stream of that client before and after the call,     *)
(* also when removals have left the cursor at or beyond n.                 *)
(***************************************************************************)
C25_IndexInRange ==
    /\ [][(/\ ret'.op = "NextTarget"
            /\ ret'.id \in DOMAIN clients
            /\ Len(clients[ret'.id].Streams) >= 1) =>
              LET c == clients[ret'.id]
                  n == Len(c.Streams)
              IN  /\ \E idx \in 0..(n - 1) :
                         /\ (c.streamIdx - idx) % n = 0
                         /\ ret'.val = c.Streams[idx + 1]
                  /\ ret'.val \in Range(c.Streams)
                  /\ ret'.val \in Range(clients'[ret'.id].Streams)
                  /\ ret'.val \notin {Nil, Panic}]_vars
    /\ [](\A id \in DOMAIN clients : clients[id].streamIdx \in 0..MaxCalls)

\* a selection made with the cursor beyond the stream count, after removals
C25_Witness ==
    /\ ret.op = "NextTarget"
    /\ ret.id \in DOMAIN clients
    /\ Len(clients[ret.id].Streams) >= 1
    /\ clients[ret.id].streamIdx - 1 > Len(clients[ret.id].Streams)
    /\ ret.val \in Range(clients[ret.id].Streams)

\* the session of id has no connection left
Unreferenced(m, id) == m[id].Control = Nil /\ m[id].Streams = <<>>

(***************************************************************************)
(* C26: sessions. The registry maps each client id to one session; a       *)
(* session appears only in a SetControl or AddStream for its id, and does  *)
(* appear then, holding just that connection; operations on the control    *)
(* leave the streams and the cursor of every session alone and operations  *)
(* on the streams leave every control alone; and no step destroys a        *)
(* session unless it is a removal, for that id, of its last reference.     *)
(***************************************************************************)
C26_Sessions ==
    /\ [](DOMAIN clients \subseteq ClientIDs)
    /\ [][\A id \in ClientIDs :
            /\ (id \notin DOMAIN clients /\ id \in DOMAIN clients') =>
                   /\ ret'.op \in {"SetControl", "AddStream"}
                   /\ ret'.id = id
                   /\ clients'[id] \in
                          {[NewClient EXCEPT !.Control = ret'.conn],
                           [NewClient EXCEPT !.Streams = <<ret'.conn>>]}
            /\ (ret'.op \in {"SetControl", "AddStream"} /\ ret'.id = id) =>
                   id \in DOMAIN clients'
            /\ (id \in DOMAIN clients /\ id \notin DOMAIN clients') =>
                   /\ ret'.op \in {"RemoveStream", "RemoveControl"}
                   /\ ret'.id = id
                   /\ \/ clients[id] = [NewClient EXCEPT !.Control = ret'.conn,
                                                          !.streamIdx = clients[id].streamIdx]
                      \/ clients[id] = [NewClient EXCEPT !.Streams = <<ret'.conn>>,
                                                          !.streamIdx = clients[id].streamIdx]
            /\ (id \in DOMAIN clients /\ id \in DOMAIN clients') =>
                   /\ ret'.op \in {"SetControl", "RemoveControl"} =>
                          /\ clients'[id].Streams = clients[id].Streams
                          /\ clients'[id].streamIdx = clients[id].streamIdx
                   /\ ret'.op \in {"AddStream", "RemoveStream"} =>
                          clients'[id].Control = clients[id].Control]_vars

\* a session that has lost its last connection and is still there, beside a
\* session that has both kinds of connection
C26_Witness ==
    /\ DOMAIN clients = ClientIDs
    /\ ret.op \in {"RemoveStream", "RemoveControl"}
    /\ Unreferenced(clients, ret.id)
    /\ \E o \in ClientIDs \ {ret.id} :
           clients[o].Control # Nil /\ clients[o].Streams # <<>>

\* the step is the return of the registration of handler h
Registers(h) == pc[h] = "cs1" /\ pc'[h] = "serving"

\* the step is the end of the reader of connection c
ReaderEnds(c) == pc[c] = "cs2" /\ pc'[c] = "idle"

\* the control connection of the client of h's request before the step
OldControl(h) ==
    IF req[h].id \in DOMAIN clients THEN clients[req[h].id].Control ELSE Nil

(***************************************************************************)
(* C27: who closes a connection. A connection x is closed by a goroutine   *)
(* other than its own reader only in the step in which the handler of a    *)
(* control connection returns from SetControl, x being the control         *)
(* connection of that client until then and another connection than the    *)
(* new one; the handler of a stream connection closes nothing; and every   *)
(* other close of x is made by the reader of x when it ends. The streamer  *)
(* and the steps inside the registry close nothing.                        *)
(***************************************************************************)
C27_WhoCloses ==
    /\ [][\A x \in Conns : \A g \in Conns :
            (g \in closedBy'[x] /\ g \notin closedBy[x]) =>
                IF g = x
                THEN ReaderEnds(x)
                ELSE /\ Registers(g)
                     /\ req[g].role # "stream"
                     /\ OldControl(g) = x
                     /\ clients'[req[g].id].Control = g]_vars
    /\ [][\A h \in Conns :
            (Registers(h) /\ req[h].role # "stream" /\ OldControl(h) \notin {Nil, h}) =>
                h \in closedBy'[OldControl(h)]]_vars
    /\ [][\A c \in Conns : ReaderEnds(c) => c \in closedBy'[c]]_vars
    /\ [](\A x \in Conns : closedBy[x] \subseteq Conns)

\* the control connection c1 was replaced by c2, whose handler closed it,
\* and the reader of c1 has closed it again when it ended
C27_Witness ==
    /\ closedBy["c1"] = {"c1", "c2"}
    /\ pc["c1"] = "idle"
    /\ pc["c2"] = "serving"
    /\ req["c2"].role = "control"
    /\ closedBy["c2"] = {}


(***************************************************************************)
(* C28: when the capture of a frame fails in a dispatch tick, the tick is  *)
(* skipped and the failure is not fatal: the streamer is back at its       *)
(* select without having taken the registry lock, so nothing is written to *)
(* any client, NextTarget is not called and no round-robin cursor moves,   *)
(* and the next tick is served like any other.                             *)
(***************************************************************************)
C28_CaptureFailureSkips ==
    /\ [][pc'[Disp] = "caperr" /\ pc[Disp] # "caperr" =>
            /\ pc[Disp] = "idle"
            /\ UNCHANGED <<clients, mu, target, ids, snap, visited, closedBy>>]_vars
    /\ [][pc[Disp] = "caperr" /\ pc'[Disp] # "caperr" =>
            /\ pc'[Disp] = "idle"
            /\ UNCHANGED <<clients, mu, target, ids, snap, visited, closedBy, rounds>>]_vars
    /\ [][pc[Disp] = "caperr" =>
            \A id \in DOMAIN clients : clients'[id].streamIdx = clients[id].streamIdx]_vars
    /\ [](pc[Disp] = "caperr" =>
            /\ target = Nil /\ ids = <<>> /\ snap = <<>>
            /\ mu.writer # Disp /\ Disp \notin mu.readers
            /\ ENABLED SkipTick)
    /\ [](pc[Disp] = "idle" /\ rounds < MaxRounds => ENABLED TickerFires /\ ENABLED CaptureFails)

C28_Witness ==
    /\ pc[Disp] = "caperr"
    /\ rounds = MaxRounds
    /\ \E id \in DOMAIN clients : Len(clients[id].Streams) >= 2 /\ clients[id].streamIdx = 1

(***************************************************************************)
(* C29: the chunk tables belong to one call. Every wait starts with empty  *)
(* tables, so the fragments an earlier wait read are gone: a message whose *)
(* fragments were read partly by one wait and partly by the next is never  *)
(* complete in the tables and is returned by neither wait. A wait returns  *)
(* the fragmented message only when it has read every fragment itself.     *)
(***************************************************************************)
\* the fragments of the message that were sent and are neither in flight nor
\* in the tables: where every datagram is delivered once, an earlier call
\* read them
ReadEarlier ==
    {i \in 0..(sIdx - 1) :
        /\ [src |-> HostAddr, data |-> Chunk(sID, sMsg, sSize, i)] \notin net
        /\ ~(sID \in DOMAIN chunks /\ i \in DOMAIN chunks[sID])}

C29_TablesPerCall ==
    /\ [][wpc = "idle" /\ wpc' = "reading" =>
            chunks' = <<>> /\ totalChunks' = <<>>]_vars
    /\ [](wpc = "reading" /\ ReadEarlier # {} /\ sID \in DOMAIN chunks =>
            ~Complete(chunks[sID], totalChunks[sID]))
    /\ [][wpc = "reading" /\ ReadEarlier # {} /\ wpc' = "returned" =>
            lastIdx' = -1 /\ result'.msg # TrimPrefix(sMsg, wPrefix)]_vars
    /\ [][wpc = "reading" /\ wpc' = "returned" /\ lastIdx' >= 0 =>
            /\ ReadEarlier = {}
            /\ sID \in DOMAIN chunks
            /\ DOMAIN chunks[sID] \cup {lastIdx'} = 0..(NumChunks(sMsg, sSize) - 1)]_vars

\* the second wait awaits the type of the message, has read all that was left
\* of it, and has nothing more to read
C29_Witness ==
    /\ wpc = "reading"
    /\ HasPrefix(sMsg, wPrefix)
    /\ sIdx = NumChunks(sMsg, sSize)
    /\ net = {}
    /\ ReadEarlier # {}
    /\ sID \in DOMAIN chunks
    /\ Cardinality(DOMAIN chunks[sID]) + Cardinality(ReadEarlier) = NumChunks(sMsg, sSize)

(***************************************************************************)
(* C30: chunked frames. Every frame starts with one frameMeta that         *)
(* announces ceil(len(data) / chunkSize) chunks; the frameChunk calls that  *)
(* follow carry the id of that frameMeta and the indexes 0, 1, ... in       *)
(* ascending order, as many as announced; after a frameMeta whose send     *)
(* failed no chunk is sent and the next frame takes the same id; two       *)
(* frames sent one after the other carry different ids.                    *)
(***************************************************************************)
MetaAt(k) == k \in DOMAIN sent /\ sent[k].msg.Type = "frameMeta"
ChunkAt(k) == k \in DOMAIN sent /\ sent[k].msg.Type = "frameChunk"
SentMetaAt(k) == MetaAt(k) /\ ~sent[k].err

\* the frameMeta call that precedes call k most closely, 0 when there is none
MetaBefore(k) ==
    LET js == {j \in 1..(k - 1) : MetaAt(j)}
    IN  IF js = {} THEN 0 ELSE CHOOSE j \in js : \A j2 \in js : j2 <= j

\* the calls of the frame whose frameMeta is call j are all made
FrameOver(j) == (\E k \in DOMAIN sent : k > j /\ MetaAt(k)) \/ ppc = "tick"

C30_ChunkedFrames ==
    /\ [](\A k \in DOMAIN sent : ChunkAt(k) =>
            LET j == MetaBefore(k)
            IN  /\ j > 0
                /\ ~sent[j].err
                /\ sent[k].msg.ID = sent[j].msg.ID
                /\ sent[k].msg.Index = k - j - 1
                /\ sent[k].msg.Index < sent[j].msg.Chunks)
    /\ [](\A j \in DOMAIN sent : (SentMetaAt(j) /\ FrameOver(j)) =>
            \A i \in 0..(sent[j].msg.Chunks - 1) :
                ChunkAt(j + 1 + i) /\ sent[j + 1 + i].msg.Index = i)
    /\ [](\A j \in DOMAIN sent : (MetaAt(j) /\ sent[j].err) =>
            /\ ~ChunkAt(j + 1)
            /\ (MetaAt(j + 1) => sent[j + 1].msg.ID = sent[j].msg.ID)
            /\ j = Len(sent) => (frameID = sent[j].msg.ID /\ ppc # "chunks"))
    /\ [](\A j, j2 \in DOMAIN sent :
            (j < j2 /\ SentMetaAt(j) /\ SentMetaAt(j2)
             /\ \A j3 \in (j + 1)..(j2 - 1) : ~SentMetaAt(j3)) =>
                sent[j].msg.ID # sent[j2].msg.ID)
    /\ [][Len(sent') > Len(sent) /\ MetaAt(Len(sent))' =>
            /\ sent'[Len(sent')].msg.Chunks = CeilDiv(Len(b64), cSize)
            /\ sent'[Len(sent')].msg.Chunks >= 1
            /\ sent'[Len(sent')].msg.ID = frameID]_vars

\* a frame of two chunks was sent, the frameMeta of the next failed, and the
\* frame after it is sent under the id the failed one had
C30_Witness ==
    /\ ppc = "tick"
    /\ \E j \in DOMAIN sent :
           /\ SentMetaAt(j) /\ sent[j].msg.Chunks = 2
           /\ MetaAt(j + 3) /\ sent[j + 3].err
           /\ SentMetaAt(j + 4)
           /\ ChunkAt(j + 5)
           /\ sent[j + 4].msg.ID = 0

(***************************************************************************)
(* C31: a superseded control connection cannot undo its successor. When    *)
(* the reader of a control connection ends while another connection is the *)
(* control of its client, its RemoveControl leaves that control in place,  *)
(* whether the reader ends before or after the SetControl of the new       *)
(* connection; a control connection that is being served and that no       *)
(* handler has closed is the control of its client.                        *)
(***************************************************************************)
C31_SupersededHarmless ==
    /\ [][\A x \in Conns :
            (ReaderEnds(x) /\ req[x].role # "stream" /\ OldControl(x) \notin {Nil, x}) =>
                /\ clients'[req[x].id].Control = OldControl(x)
                /\ clients' = clients]_vars
    /\ [][\A h \in Conns :
            (Registers(h) /\ req[h].role # "stream") =>
                clients'[req[h].id].Control = h]_vars
    /\ [](\A g \in Conns :
            (pc[g] = "serving" /\ req[g].role # "stream" /\ closedBy[g] = {}) =>
                /\ req[g].id \in DOMAIN clients
                /\ clients[req[g].id].Control = g)

\* c2 superseded c1 as the control of A, closed it, and the reader of c1 has
\* ended since: c2 is still the control
C31_Witness ==
    /\ closedBy["c1"] = {"c1", "c2"}
    /\ pc["c1"] = "idle"
    /\ pc["c2"] = "serving"
    /\ req["c2"] = [role |-> "control", id |-> "A"]
    /\ clients["A"].Control = "c2"

(***************************************************************************)
(* C32: a fragmented message is returned only when a fragment of every     *)
(* chunkIndex 0..totalChunks-1 of its id has been received in the wait,    *)
(* totalChunks being the total first seen for the id, whatever well-formed *)
(* fragments arrive.                                                       *)
(***************************************************************************)
\* the datagram the step reads
ReadNow == CHOOSE d \in net : d \notin net'

C32_OnlyWhenAll ==
    [][(wpc = "reading" /\ wpc' = "returned" /\ net' # net
        /\ HasPrefix(ReadNow.data, FRAG)) =>
            LET parts == SplitN(ReadNow.data, COLON, 5)
                id == parts[2]
                idx == Atoi(parts[4]).val
                had == IF id \in DOMAIN chunks THEN DOMAIN chunks[id] ELSE {}
                tot == IF id \in DOMAIN totalChunks THEN totalChunks[id]
                       ELSE Atoi(parts[3]).val
            IN  \A i \in 0..(tot - 1) : i \in had \cup {idx}]_vars

(***************************************************************************)
(* C33: duplicated delivery does not break reassembly. Whatever chunk of   *)
(* the message the network delivers again, in whatever order: what the     *)
(* table holds under an index is the chunk of that index and a duplicate   *)
(* leaves it as it is; the table never holds more indexes than the message *)
(* has chunks; the wait ends on a fragment only when every index is there; *)
(* and what it returns is the message without its type tag.                *)
(***************************************************************************)
C33_DuplicatesHarmless ==
    /\ [](sID \in DOMAIN chunks =>
            /\ DOMAIN chunks[sID] \subseteq 0..(NumChunks(sMsg, sSize) - 1)
            /\ \A i \in DOMAIN chunks[sID] : chunks[sID][i] = ChunkData(sMsg, sSize, i)
            /\ totalChunks[sID] = NumChunks(sMsg, sSize))
    /\ [][(sID \in DOMAIN chunks /\ sID \in DOMAIN chunks') =>
            \A i \in DOMAIN chunks[sID] :
                i \in DOMAIN chunks'[sID] /\ chunks'[sID][i] = chunks[sID][i]]_vars
    /\ [][(wpc = "reading" /\ wpc' = "returned") =>
            /\ lastIdx' >= 0
            /\ sID \in DOMAIN chunks \/ NumChunks(sMsg, sSize) = 1
            /\ (IF sID \in DOMAIN chunks THEN DOMAIN chunks[sID] ELSE {}) \cup {lastIdx'}
                   = 0..(NumChunks(sMsg, sSize) - 1)
            /\ wPrefix \o result'.msg = sMsg]_vars
    /\ [](wpc = "reading" /\ sID \in DOMAIN chunks =>
            Cardinality(DOMAIN chunks[sID]) < NumChunks(sMsg, sSize)
            \/ ~HasPrefix(sMsg, wPrefix))

\* the wait has returned the message although the network delivers each of
\* its three chunks once more
C33_Witness ==
    /\ wpc = "returned"
    /\ lastIdx = 1
    /\ wPrefix \o result.msg = sMsg
    /\ NumChunks(sMsg, sSize) = 3
    /\ \A i \in 0..2 : [src |-> HostAddr, data |-> Chunk(sID, sMsg, sSize, i)] \in net

(***************************************************************************)
(* C34 as stated: while a client has two streams or more, two NextTarget   *)
(* calls for it that follow each other never return the same connection,   *)
(* AddStream and RemoveStream calls between them included.                 *)
(***************************************************************************)
\* the step is a NextTarget(id) that selects among two streams or more
SelectsAmongTwo(id) ==
    /\ ret'.op = "NextTarget" /\ ret'.id = id
    /\ id \in DOMAIN clients
    /\ Len(clients[id].Streams) >= 2
    /\ clients'[id].streamIdx # clients[id].streamIdx

C34_NeverTwice ==
    [][\A id \in ClientIDs :
        (SelectsAmongTwo(id) /\ hist[id] # <<>>) => ret'.val # hist[id][1]]_vars

(***************************************************************************)
(* C34 amended: two NextTarget calls for a client that follow each other   *)
(* return different connections when the client has two streams or more    *)
(* and no AddStream or RemoveStream changed its streams between the two    *)
(* calls; after a RemoveStream of a connection in front of the cursor the  *)
(* connection returned last is returned again.                             *)
(***************************************************************************)
C34_ConsecutiveDiffer ==
    /\ [][\A id \in ClientIDs :
            (SelectsAmongTwo(id) /\ hist[id] # <<>> /\ hist[id][2] = "same") =>
                ret'.val # hist[id][1]]_vars
    /\ [][\A id \in ClientIDs :
            (SelectsAmongTwo(id) /\ hist[id] # <<>> /\ ret'.val = hist[id][1]) =>
                hist[id][2] = "changed"]_vars

\* two calls for A in a row, c1 then c2
C34_Witness ==
    /\ ret.op = "NextTarget" /\ ret.id = "A"
    /\ "A" \in DOMAIN clients
    /\ clients["A"].Streams = <<"c1", "c2">>
    /\ clients["A"].streamIdx = 2
    /\ hist["A"] = <<"c2", "same">>

C36_OncePerClient ==
    /\ [](/\ \A i, j \in DOMAIN called : i # j => called[i] # called[j]
          /\ snap = <<>> \/ \A i \in DOMAIN called : called[i] = snap[i]
          /\ snap = <<>> \/ Len(called) <= Len(visited)
          /\ \A i, j \in DOMAIN written : i # j => written[i].id # written[j].id
          /\ \A i \in DOMAIN written : written[i].id \in Range(called)
          /\ \A id \in DOMAIN cursor0 :
                 /\ clients[id].streamIdx \in {cursor0[id], IntInc(cursor0[id])}
                 /\ clients[id].streamIdx # cursor0[id] => id \in Range(called)
          /\ \A id \in DOMAIN clients \ DOMAIN cursor0 : clients[id].streamIdx = 0)
    /\ [][pc[Disp] = "fn" /\ pc'[Disp] = "idle" => called = snap]_vars
    /\ [][pc[Disp] = "cs" /\ pc'[Disp] # "cs" => called' = visited]_vars

\* a tick over two clients has written a frame for each, to a stream of A
\* that has a control connection too, and moved the cursor of A
C36_Witness ==
    /\ pc[Disp] = "fn"
    /\ ids = <<>>
    /\ Len(snap) = 2
    /\ Len(written) = 2
    /\ "A" \in DOMAIN cursor0
    /\ clients["A"].streamIdx = IntInc(cursor0["A"])
    /\ clients["A"].Control # Nil
    /\ written[1].id = "A"

(***************************************************************************)
(* C37: two /signal requests served concurrently on the one UDP socket:    *)
(* each request returns the answer made of its own offer, and while a      *)
(* request waits the read deadline of the socket is the one its own call   *)
(* installed.                                                              *)
(***************************************************************************)
C37_OwnAnswer ==
    /\ \A r \in Reqs : sigpc[r] = "returned" => sigRes[r].msg = AnswerOf(OfferOf(r))
    /\ \A r \in Reqs : sigpc[r] = "reading" => sigDeadline = sigOwn[r]

(***************************************************************************)
(* C38: a removal that does not apply changes nothing. RemoveStream or     *)
(* RemoveControl for an unknown client id creates no session, RemoveStream *)
(* of a connection that is not among the streams of the client and         *)
(* RemoveControl of a connection that is not its control leave every       *)
(* session as it was, and NextTarget for an unknown client id creates no   *)
(* session and returns no target.                                          *)
(***************************************************************************)
C38_RemovalNoOp ==
    [][/\ (/\ ret'.op = "RemoveStream"
           /\ \/ ret'.id \notin DOMAIN clients
              \/ ret'.conn \notin Range(clients[ret'.id].Streams))
          => clients' = clients
       /\ (/\ ret'.op = "RemoveControl"
           /\ \/ ret'.id \notin DOMAIN clients
              \/ clients[ret'.id].Control # ret'.conn)
          => clients' = clients
       /\ (ret'.op = "NextTarget" /\ ret'.id \notin DOMAIN clients)
          => clients' = clients /\ ret'.val = Nil]_vars

\* RemoveControl was called for the unknown client B, with a connection that
\* is the control of A, and B has no session
C38_Witness ==
    /\ ret.op = "RemoveControl"
    /\ ret.id = "B"
    /\ "B" \notin DOMAIN clients
    /\ "A" \in DOMAIN clients
    /\ clients["A"].Control = ret.conn
    /\ Len(clients["A"].Streams) = 1

\* connection c is registered under the client id
ConnectedAs(c, id) == req[c].id = id /\ pc[c] \in {"serving", "lock2", "cs2"}

\* the session of id has neither a control nor a stream
EmptySession(id) == clients[id].Control = Nil /\ clients[id].Streams = <<>>

(***************************************************************************)
(* C39: the set of client ids of the registry never shrinks. Once every    *)
(* connection of a client has been removed its session is still there,     *)
(* with no control and no streams; ForEachClient goes on collecting the    *)
(* id, and NextTarget for it returns no target and changes nothing.        *)
(***************************************************************************)
C39_IdsNeverShrink ==
    /\ [][DOMAIN clients \subseteq DOMAIN clients']_vars
    /\ [](\A id \in DOMAIN clients :
              (\A c \in Conns : ~ConnectedAs(c, id)) => EmptySession(id))
    /\ [][pc[Disp] = "snap" /\ pc'[Disp] # "snap" =>
              \A id \in DOMAIN clients : EmptySession(id) => id \in Range(snap')]_vars
    /\ [][(pc[Disp] = "cs" /\ pc'[Disp] # "cs" /\ EmptySession(IdOf(Disp))) =>
              target' = Nil /\ clients' = clients]_vars

\* in the second tick fn was called for A, whose connections have all been
\* removed, and NextTarget returned no target
C39_Witness ==
    /\ "A" \in DOMAIN clients
    /\ EmptySession("A")
    /\ \A c \in Conns : pc[c] = "idle" /\ c \in closedBy[c]
    /\ rounds = 2
    /\ pc[Disp] = "fn"
    /\ visited # <<>>
    /\ visited[Len(visited)] = "A"
    /\ target = Nil
=============================================================================
